---- MODULE Spec2Model ----
(***************************************************************************)
(* Model of the OnboardX chat controller (src/src/components/ChatPage.tsx), *)
(* the face-capture component (FaceVerification, second half of            *)
(* src/src/components/ChatStarCanvas.tsx) and the parts of the edge        *)
(* function (src/supabase/functions/onboardx-chat/index.ts) they talk to.  *)
(*                                                                         *)
(* Strings of the program are tuples of one-character strings, so that     *)
(* trimming, stripping, substring search and number parsing are computed   *)
(* character by character as the code computes them.  Numbers parsed from  *)
(* user text are kept in hundredths (Scale) and NaN is the value NaN.      *)
(***************************************************************************)
EXTENDS Integers, Sequences, FiniteSets, Bags, TLC

\* ------------------------------------------------------------------------
\* Bounds of the model
\* ------------------------------------------------------------------------
\* User actions (send, upload, camera button, capture) per session
MaxActions == 2

\* ------------------------------------------------------------------------
\* Text helpers (JavaScript string functions used by the handlers)
\* ------------------------------------------------------------------------
Upper == <<"A","B","C","D","E","F","G","H","I","J","K","L","M",
           "N","O","P","Q","R","S","T","U","V","W","X","Y","Z">>
Lower == <<"a","b","c","d","e","f","g","h","i","j","k","l","m",
           "n","o","p","q","r","s","t","u","v","w","x","y","z">>
Digits == <<"0","1","2","3","4","5","6","7","8","9">>

IsIn(c, tup) == \E i \in 1..Len(tup) : tup[i] = c
IndexOf(c, tup) == CHOOSE i \in 1..Len(tup) : tup[i] = c
IsDigit(c) == IsIn(c, Digits)
DigitVal(c) == IndexOf(c, Digits) - 1
IsSpace(c) == c \in {" ", "\t", "\n", "\r"}

LowerChar(c) == IF IsIn(c, Upper) THEN Lower[IndexOf(c, Upper)] ELSE c
toLowerCase(s) == [i \in 1..Len(s) |-> LowerChar(s[i])]

\* String.prototype.includes
includes(s, sub) ==
  \E i \in 1..(Len(s) - Len(sub) + 1) : SubSeq(s, i, i + Len(sub) - 1) = sub

\* String.prototype.trim
trim(s) ==
  IF \A i \in 1..Len(s) : IsSpace(s[i]) THEN <<>>
  ELSE LET first == CHOOSE i \in 1..Len(s) :
                       ~IsSpace(s[i]) /\ \A j \in 1..(i-1) : IsSpace(s[j])
           last  == CHOOSE i \in 1..Len(s) :
                       ~IsSpace(s[i]) /\ \A j \in (i+1)..Len(s) : IsSpace(s[j])
       IN SubSeq(s, first, last)

\* Number of leading digits of s from position i on
RECURSIVE DigitRun(_, _)
DigitRun(s, i) ==
  IF i <= Len(s) /\ IsDigit(s[i]) THEN 1 + DigitRun(s, i + 1) ELSE 0

\* Decimal value of the digit string s
RECURSIVE DecVal(_)
DecVal(s) ==
  IF s = <<>> THEN 0
  ELSE 10 * DecVal(SubSeq(s, 1, Len(s) - 1)) + DigitVal(s[Len(s)])

Scale == 100
NaN == -1

\* parseFloat on a string of digits and dots: the longest prefix of the
\* form digits [. digits]; the result is in hundredths, the fraction
\* truncated after two digits; NaN when the prefix holds no digit.
parseFloat(s) ==
  LET n == DigitRun(s, 1)
      hasDot == n < Len(s) /\ s[n + 1] = "."
      m == IF hasDot THEN DigitRun(s, n + 2) ELSE 0
      frac == SubSeq(s, n + 2, n + 1 + m)
      f1 == IF m >= 1 THEN DigitVal(frac[1]) ELSE 0
      f2 == IF m >= 2 THEN DigitVal(frac[2]) ELSE 0
  IN IF n = 0 /\ m = 0 THEN NaN
     ELSE DecVal(SubSeq(s, 1, n)) * Scale + 10 * f1 + f2

\* text.replace(/[^0-9.]/g, "")
StripNonNumeric(s) == SelectSeq(s, LAMBDA c : IsDigit(c) \/ c = ".")

\* phone.replace(/[\s\-().]/g, "")
StripPhone(s) ==
  SelectSeq(s, LAMBDA c : ~(IsSpace(c) \/ c \in {"-", "(", ")", "."}))

\* /^[^\s@]+@[^\s@]+\.[^\s@]+$/.test(email)
Plain(s, a, b) == a <= b /\ \A k \in a..b : ~IsSpace(s[k]) /\ s[k] # "@"
\* A format that asks for no dot after the @
emailRegex_noDot(s) ==
  \E i \in 1..Len(s) :
     s[i] = "@" /\ Plain(s, 1, i - 1) /\ Plain(s, i + 1, Len(s))

emailRegex(s) ==
  \E i \in 1..Len(s) : \E j \in (i + 1)..Len(s) :
     /\ s[i] = "@" /\ s[j] = "."
     /\ Plain(s, 1, i - 1) /\ Plain(s, i + 1, j - 1) /\ Plain(s, j + 1, Len(s))

\* A detection that compares without lower-casing the text
detectEmployment_caseSensitive(text) ==
  LET t == text IN
  IF includes(t, <<"f","r","e","e","l","a","n">>) THEN "freelancer"
  ELSE IF includes(t, <<"s","a","l","a","r">>) THEN "salaried"
  ELSE IF includes(t, <<"b","u","s","i","n","e","s","s">>)
          \/ includes(t, <<"o","w","n","e","r">>) THEN "business"
  ELSE IF includes(t, <<"s","t","u","d","e","n","t">>) THEN "student"
  ELSE ""

\* detectEmployment
detectEmployment(text) ==
  LET t == toLowerCase(text) IN
  IF includes(t, <<"f","r","e","e","l","a","n">>) THEN "freelancer"
  ELSE IF includes(t, <<"s","a","l","a","r">>) THEN "salaried"
  ELSE IF includes(t, <<"b","u","s","i","n","e","s","s">>)
          \/ includes(t, <<"o","w","n","e","r">>) THEN "business"
  ELSE IF includes(t, <<"s","t","u","d","e","n","t">>) THEN "student"
  ELSE ""

\* ------------------------------------------------------------------------
\* Inputs: what the user may type, what the assistant's reply may contain
\* ------------------------------------------------------------------------
TxtHello     == <<"h","i">>
TxtBlank     == <<" ">>
TxtStudent   == <<"S","t","u","d","e","n","t">>
TxtSalaried  == <<"s","a","l","a","r","y">>
TxtIncomeOk  == <<"R","s"," ","4","5",",","0","0","0">>
TxtIncomeLow == <<"7","5","0">>
TxtEmailOk   == <<"a","@","b",".","c","o">>
TxtEmailBad  == <<"a","@","b">>
TxtPhone     == <<"9","8","-","7","6">>
TxtParens    == <<"(",")">>
TxtOwnerIncome == <<"o","w","n","e","r"," ","2","0","0","0">>
TxtSkip      == <<"s","k","i","p">>
Texts == {TxtHello, TxtBlank, TxtStudent, TxtSalaried, TxtIncomeOk,
          TxtIncomeLow, TxtEmailOk, TxtEmailBad, TxtPhone, TxtParens,
          TxtOwnerIncome, TxtSkip}

\* Which trigger phrase tables (FACE_, INCOME_, EMAIL_, PHONE_TRIGGER_PHRASES)
\* have a phrase occurring in the lower-cased assistant reply
TriggerKinds == {"face", "income", "email", "phone"}

Levels == {"Low", "Medium", "High"}
AccountNumbers == {"3a", "3b"}
ifscCodes == {"ONBX0001234", "ONBX0005678", "ONBX0009012"}

\* ------------------------------------------------------------------------
\* State
\* ------------------------------------------------------------------------
VARIABLES
  messages,            \* useState<Message[]>
  isLoading,           \* useState(false)
  onboarding,          \* useState<OnboardingState>; onboardingRef follows it
  showFaceVerify,      \* useState(false): the FaceVerification view is mounted
  documentBase64,      \* useState: TRUE once a document was read
  chatStarted,         \* useRef(false)
  faceVerifyTriggered, \* useRef(false)
  pending,             \* bag of requests in flight and of scheduled callbacks
  phase,               \* FaceVerification: "camera" | "verifying" | "result"
  countdown,           \* FaceVerification: a countdown is running
  resultOk,            \* FaceVerification: useState(false)
  resultMsg,           \* FaceVerification: useState("")
  faceGen,             \* number of FaceVerification instances mounted so far
  streamRef,           \* FaceVerification: useRef<MediaStream | null>; 0 is null
  activeStreams,       \* the camera streams whose tracks are running
  cameraError,         \* FaceVerification: useState<string | null>, as a flag
  progress,            \* useState(5)
  nActions,            \* user actions taken so far
  accountsGenerated,   \* history: calls of generateAccountDetails
  records,             \* the data records of the event stream being read
  wire,                \* the part of the event stream not yet delivered
  textBuffer,          \* streamMessage: let textBuffer
  botReply,            \* streamMessage: let botReply
  reader,              \* streamMessage: "idle" | "reading" | "finished"
  split,               \* history: a read has ended inside a line
  riskData,            \* serve: the riskData of the request being served, if any
  riskResponse,        \* serve: the RiskResult sent back, if any
  request,             \* serve: req, with the keys of its body
  env,                 \* Deno.env: which secrets are configured
  response,            \* serve: the Response returned
  upstream,            \* the calls made to other services, in order
  handled,             \* history: the handlers that ran, in order
  random,              \* the values the calls of Math.random() return
  generated            \* what generateAccountDetails returned, if it was called

vars == <<messages, isLoading, onboarding, showFaceVerify, documentBase64,
          chatStarted, faceVerifyTriggered, pending, phase, countdown,
          resultOk, resultMsg, faceGen, streamRef, activeStreams,
          cameraError, progress, nActions,
          accountsGenerated, records, wire, textBuffer, botReply, reader,
          split, riskData, riskResponse, request, env, response, upstream,
          handled, random, generated>>

cameraVars == <<streamRef, activeStreams, cameraError>>
faceVars == <<showFaceVerify, phase, countdown, resultOk, resultMsg, faceGen,
              cameraVars>>
counters == <<nActions>>
history == <<accountsGenerated>>
streamVars == <<records, wire, textBuffer, botReply, reader, split>>
riskVars == <<riskData, riskResponse>>
serveVars == <<request, env, response, upstream, handled>>
accountVars == <<random, generated>>
sessionVars == <<messages, isLoading, onboarding, documentBase64, chatStarted,
                 faceVerifyTriggered, pending, faceVars, counters, history,
                 progress>>


NoIncome == -1
NoRisk == "null"

\* Message
Msg(role, content) ==
  [role |-> role, content |-> content, isFile |-> FALSE, isAccountDetails |-> FALSE]
UserMsg == Msg("user", "text")
FileMsg == [Msg("user", "file") EXCEPT !.isFile = TRUE]
AccountMsg == [Msg("bot", "account") EXCEPT !.isAccountDetails = TRUE]

\* The outcome of one call of the face-verification adapter
NoReply == [status |-> "none", liveness |-> "absent", match |-> "absent"]

\* A request in flight or a scheduled callback, with what its closure holds;
\* reply is history: the adapter outcome a face callback stems from
Pend(kind) ==
  [kind |-> kind, msgs |-> <<>>, text |-> <<>>, num |-> 0, emp |-> "",
   docs |-> FALSE, face |-> FALSE, reply |-> NoReply]

RequestKinds == {"chat", "risk", "email", "phone", "face"}
Requests == {r \in BagToSet(pending) : r.kind \in RequestKinds}
InFlight == BagCardinality([r \in Requests |-> pending[r]])

Add(bag, r) == bag (+) SetToBag({r})
Remove(bag, r) == bag (-) SetToBag({r})
Has(kind) == {r \in BagToSet(pending) : r.kind = kind}

\* Rank of the collection steps in the order of the flow
Rank(step) ==
  CASE step = "awaitingIncome" -> 1
    [] step = "awaitingEmail" -> 2
    [] step = "awaitingPhone" -> 3
    [] step = "done" -> 4
    [] OTHER -> 0

\* useState<OnboardingState>({...})
NewOnboarding ==
  [employmentType |-> "", monthlyIncome |-> NoIncome,
   email |-> <<>>, phone |-> <<>>,
   documentsVerified |-> FALSE, faceVerified |-> FALSE,
   accountNumber |-> "", ifsc |-> "",
   riskResult |-> NoRisk, step |-> "chat"]

\* The state of the page with the onboarding record ob; loading: a call of
\* streamMessage is running; triggered: faceVerifyTriggered.current
PageStart(loading, ob, triggered) ==
  /\ messages = <<>>
  /\ isLoading = loading
  /\ onboarding = ob
  /\ showFaceVerify = FALSE
  /\ documentBase64 = FALSE
  /\ chatStarted = FALSE
  /\ faceVerifyTriggered = triggered
  /\ pending = EmptyBag
  /\ phase = "camera"
  /\ countdown = FALSE
  /\ resultOk = FALSE
  /\ resultMsg = ""
  /\ faceGen = 0
  /\ streamRef = 0 /\ activeStreams = {} /\ cameraError = FALSE
  /\ progress = 5
  /\ nActions = 0
  /\ accountsGenerated = 0

SessionStart(loading) == PageStart(loading, NewOnboarding, FALSE)
SessionInit == SessionStart(FALSE)

StreamIdle ==
  /\ records = <<>> /\ wire = <<>> /\ textBuffer = <<>> /\ botReply = <<>>
  /\ reader = "idle" /\ split = FALSE

RiskIdle == riskData = {} /\ riskResponse = {}

\* No request is being served
NoRequest == [method |-> "none"]
NoEnv == [LOVABLE_API_KEY |-> FALSE, RESEND_API_KEY |-> FALSE]
NoResponse == [status |-> 0, kind |-> "none", error |-> "", data |-> <<>>]
ServeIdle ==
  /\ request = NoRequest /\ env = NoEnv /\ response = NoResponse
  /\ upstream = <<>> /\ handled = <<>>

\* generateAccountDetails is not being called on its own
NoRandom == [account |-> [digits |-> <<>>, zeros |-> 0], ifsc |-> 0]
AccountIdle == random = NoRandom /\ generated = {}

Init == SessionInit /\ StreamIdle /\ RiskIdle /\ ServeIdle /\ AccountIdle

\* ------------------------------------------------------------------------
\* streamMessage
\* ------------------------------------------------------------------------
\* The synchronous start of streamMessage: setIsLoading(true) and the fetch.
\* num = 1 once botReply is not empty.
ChatReq == Pend("chat")

\* useEffect on mount; it runs before any event of the user is handled
StartChat ==
  /\ ~chatStarted
  /\ chatStarted' = TRUE
  /\ isLoading' = TRUE
  /\ pending' = Add(pending, ChatReq)
  /\ UNCHANGED <<messages, onboarding, documentBase64, faceVerifyTriggered,
                 faceVars, counters, history, progress>>
  /\ UNCHANGED <<streamVars, riskVars, serveVars, accountVars>>

\* addBotChunk: the last message, when it is a bot message that is not a
\* file, gets the reply as its content; otherwise a bot message is appended
addBotChunk(msgs) ==
  LET n == Len(msgs) IN
  IF n > 0 /\ msgs[n].role = "bot" /\ ~msgs[n].isFile
  THEN [msgs EXCEPT ![n].content = "reply"]
  ELSE Append(msgs, Msg("bot", "reply"))

\* A data record with a non-empty delta content is read
StreamChunk(r) ==
  /\ r \in Has("chat")
  /\ messages' = addBotChunk(messages)
  /\ pending' = Add(Remove(pending, r), [r EXCEPT !.num = 1])
  /\ messages' # messages \/ r.num = 0
  /\ UNCHANGED <<isLoading, onboarding, documentBase64, chatStarted,
                 faceVerifyTriggered, faceVars, counters, history, progress>>
  /\ UNCHANGED <<streamVars, riskVars, serveVars, accountVars>>

\* Math.min(p, 95)
Capped(p) == IF p < 95 THEN p ELSE 95

\* A detection in which the income phrase is looked at last
TriggeredStep_incomeLast(step, trig, ob) ==
  LET s1 == IF "email" \in trig /\ ob.email = <<>> THEN "awaitingEmail" ELSE step
      s2 == IF "phone" \in trig /\ ob.phone = <<>> THEN "awaitingPhone" ELSE s1
      s3 == IF "income" \in trig THEN "awaitingIncome" ELSE s2
  IN s3

\* The step after trigger detection: the setOnboarding updaters run in the
\* order income, email, phone
TriggeredStep(step, trig, ob) ==
  LET s1 == IF "income" \in trig THEN "awaitingIncome" ELSE step
      s2 == IF "email" \in trig /\ ob.email = <<>> THEN "awaitingEmail" ELSE s1
      s3 == IF "phone" \in trig /\ ob.phone = <<>> THEN "awaitingPhone" ELSE s2
  IN s3

\* An end of streamMessage that opens the camera at every face phrase
StreamEnd_unguarded(r, trig) ==
  /\ r \in Has("chat")
  /\ r.num = 0 => trig = {}
  /\ LET fire == "face" \in trig
         p1 == Remove(pending, r)
     IN /\ faceVerifyTriggered' = (faceVerifyTriggered \/ fire)
        /\ pending' = IF fire THEN Add(p1, Pend("openFace")) ELSE p1
  /\ onboarding' = [onboarding EXCEPT
                      !.step = TriggeredStep(onboarding.step, trig, onboarding)]
  /\ isLoading' = FALSE
  /\ progress' = Capped(progress + 12)
  /\ UNCHANGED <<messages, documentBase64, chatStarted, faceVars, counters,
                 history>>
  /\ UNCHANGED <<streamVars, riskVars, serveVars, accountVars>>

\* The read loop has ended ([DONE] or end of stream); trig is the set of
\* trigger tables matched by the accumulated reply
StreamEnd(r, trig) ==
  /\ r \in Has("chat")
  /\ r.num = 0 => trig = {}
  /\ LET fire == "face" \in trig /\ ~faceVerifyTriggered
         p1 == Remove(pending, r)
     IN /\ faceVerifyTriggered' = (faceVerifyTriggered \/ fire)
        /\ pending' = IF fire THEN Add(p1, Pend("openFace")) ELSE p1
  /\ onboarding' = [onboarding EXCEPT
                      !.step = TriggeredStep(onboarding.step, trig, onboarding)]
  /\ isLoading' = FALSE
  /\ progress' = Capped(progress + 12)
  /\ UNCHANGED <<messages, documentBase64, chatStarted, faceVars, counters,
                 history>>
  /\ UNCHANGED <<streamVars, riskVars, serveVars, accountVars>>

\* !resp.ok || !resp.body
StreamHttpError(r) ==
  /\ r \in Has("chat")
  /\ r.num = 0
  /\ messages' = Append(messages, Msg("bot", "error"))
  /\ isLoading' = FALSE
  /\ pending' = Remove(pending, r)
  /\ UNCHANGED <<onboarding, documentBase64, chatStarted, faceVerifyTriggered,
                 faceVars, counters, history, progress>>
  /\ UNCHANGED <<streamVars, riskVars, serveVars, accountVars>>

\* A catch that calls streamMessage again
StreamException_retry(r) ==
  /\ r \in Has("chat")
  /\ messages' = Append(messages, Msg("bot", "connectionError"))
  /\ isLoading' = FALSE
  /\ pending' = Add(Remove(pending, r), ChatReq)
  /\ UNCHANGED <<onboarding, documentBase64, chatStarted, faceVerifyTriggered,
                 faceVars, counters, history, progress>>
  /\ UNCHANGED <<streamVars, riskVars, serveVars, accountVars>>

\* fetch or reader.read() throws
StreamException(r) ==
  /\ r \in Has("chat")
  /\ messages' = Append(messages, Msg("bot", "connectionError"))
  /\ isLoading' = FALSE
  /\ pending' = Remove(pending, r)
  /\ UNCHANGED <<onboarding, documentBase64, chatStarted, faceVerifyTriggered,
                 faceVars, counters, history, progress>>
  /\ UNCHANGED <<streamVars, riskVars, serveVars, accountVars>>

\* ------------------------------------------------------------------------
\* sendMessage and the three input handlers, up to their first await
\* ------------------------------------------------------------------------
MinIncome == 1000

\* A handler whose minimum is 500
IncomeRejected_min500(income) == income = NaN \/ income = 0 \/ income < 500 * Scale

\* handleIncomeInput: !income || income < 1000
IncomeRejected(income) == income = NaN \/ income = 0 \/ income < MinIncome * Scale

\* runRiskScoring: the riskData of the request, read from onboardingRef
RiskReq(income, employmentType, currentMessages, current) ==
  [Pend("risk") EXCEPT
     !.num = income, !.msgs = currentMessages,
     !.emp = IF employmentType # "" THEN employmentType
             ELSE IF current.employmentType # "" THEN current.employmentType
             ELSE "salaried",
     !.docs = current.documentsVerified, !.face = current.faceVerified]

sendMessage(input) ==
  LET text == trim(input)
      newHistory == Append(messages, UserMsg)
      emp == detectEmployment(text)
      ob1 == IF emp # "" /\ onboarding.employmentType = ""
             THEN [onboarding EXCEPT !.employmentType = emp] ELSE onboarding
      income == parseFloat(StripNonNumeric(text))
      cleaned == StripPhone(text)
  IN
  /\ chatStarted /\ nActions < MaxActions
  /\ text # <<>> /\ ~isLoading
  /\ nActions' = nActions + 1
  /\ CASE onboarding.step = "awaitingIncome" ->
            IF IncomeRejected(income)
            THEN /\ messages' = Append(newHistory, Msg("bot", "incomePrompt"))
                 /\ onboarding' = ob1
                 /\ UNCHANGED <<pending, isLoading>>
            ELSE /\ messages' = newHistory
                 /\ onboarding' = [ob1 EXCEPT !.monthlyIncome = income, !.step = "chat"]
                 /\ pending' = Add(pending,
                       RiskReq(income, onboarding.employmentType, newHistory, onboarding))
                 /\ UNCHANGED isLoading
       [] onboarding.step = "awaitingEmail" ->
            IF ~emailRegex(text)
            THEN /\ messages' = Append(newHistory, Msg("bot", "emailPrompt"))
                 /\ onboarding' = ob1
                 /\ UNCHANGED <<pending, isLoading>>
            ELSE /\ messages' = Append(newHistory, Msg("bot", "validatingEmail"))
                 /\ onboarding' = ob1
                 /\ pending' = Add(pending,
                       [Pend("email") EXCEPT !.text = text, !.msgs = newHistory])
                 /\ UNCHANGED isLoading
       [] onboarding.step = "awaitingPhone" ->
            /\ messages' = Append(newHistory, Msg("bot", "validatingPhone"))
            /\ onboarding' = ob1
            /\ pending' = Add(pending,
                  [Pend("phone") EXCEPT !.text = cleaned, !.msgs = newHistory])
            /\ UNCHANGED isLoading
       [] OTHER ->
            /\ messages' = newHistory
            /\ onboarding' = ob1
            /\ isLoading' = TRUE
            /\ pending' = Add(pending, ChatReq)
  /\ UNCHANGED <<documentBase64, chatStarted, faceVerifyTriggered, faceVars,
                 history, progress>>
  /\ UNCHANGED <<streamVars, riskVars, serveVars, accountVars>>

\* ------------------------------------------------------------------------
\* handleIncomeInput after the risk-scoring request
\* ------------------------------------------------------------------------
\* resp.ok: the RiskResult is recorded and shown, the continuation is
\* scheduled with setTimeout
RiskScored(r, level) ==
  /\ r \in Has("risk")
  /\ level \in Levels
  /\ onboarding' = [onboarding EXCEPT !.riskResult = level]
  /\ messages' = Append(r.msgs, Msg("bot", "risk"))
  /\ pending' = Add(Remove(pending, r), Pend("afterRisk"))
  /\ progress' = Capped(progress + 15)
  /\ UNCHANGED <<isLoading, documentBase64, chatStarted, faceVerifyTriggered,
                 faceVars, counters, history>>
  /\ UNCHANGED <<streamVars, riskVars, serveVars, accountVars>>

\* !resp.ok: runRiskScoring returns null and streamMessage is called at once
RiskFailed(r) ==
  /\ r \in Has("risk")
  /\ isLoading' = TRUE
  /\ pending' = Add(Remove(pending, r), ChatReq)
  /\ UNCHANGED <<messages, onboarding, documentBase64, chatStarted,
                 faceVerifyTriggered, faceVars, counters, history, progress>>
  /\ UNCHANGED <<streamVars, riskVars, serveVars, accountVars>>

\* A callEdgeFunction whose fetch throws: the handler's promise is rejected
\* and nothing after the await runs
RequestThrows(r) ==
  /\ r \in Has("risk") \cup Has("email") \cup Has("phone")
  /\ pending' = Remove(pending, r)
  /\ UNCHANGED <<messages, isLoading, onboarding, documentBase64, chatStarted,
                 faceVerifyTriggered, faceVars, counters, history, progress>>
  /\ UNCHANGED <<streamVars, riskVars, serveVars, accountVars>>

\* A setTimeout callback that calls streamMessage
\* (after the risk message, after the email, after the face verification)
ContinueTimer(r) ==
  /\ r \in Has("afterRisk") \cup Has("afterEmail") \cup Has("afterFace")
  /\ isLoading' = TRUE
  /\ pending' = Add(Remove(pending, r), ChatReq)
  /\ UNCHANGED <<messages, onboarding, documentBase64, chatStarted,
                 faceVerifyTriggered, faceVars, counters, history, progress>>
  /\ UNCHANGED <<streamVars, riskVars, serveVars, accountVars>>

\* ------------------------------------------------------------------------
\* handleEmailInput after validateEmail
\* ------------------------------------------------------------------------
Range(f) == {f[i] : i \in DOMAIN f}
Without(msgs, content) == SelectSeq(msgs, LAMBDA m : m.content # content)

\* What a deliverability request can end in: the edge function answers
\* with an error status (edgeError); the upstream service answers with a
\* status that is not ok (notOk); the fetch or the parse of the upstream
\* answer throws (throws); the upstream service answers, in its v2 or its
\* v1 layout, with a format flag and a deliverability status
EmailLookups ==
  [kind : {"edgeError", "notOk", "throws"}, format : {FALSE}, status : {"absent"}]
  \cup [kind : {"v2", "v1"}, format : BOOLEAN,
        status : {"deliverable", "risky", "undeliverable", "absent"}]

\* A lookup that rejects the email when the upstream service fails
EdgeValidateEmail_failClosed(o) ==
  IF o.kind \in {"notOk", "throws"} THEN FALSE
  ELSE IF ~o.format THEN FALSE
  ELSE o.status \in {"deliverable", "risky"}

\* validateEmail of the edge function: the valid field of its result
EdgeValidateEmail(o) ==
  IF o.kind \in {"notOk", "throws"} THEN TRUE
  ELSE IF ~o.format THEN FALSE
  ELSE o.status \in {"deliverable", "risky"}

\* validateEmail of the page: true when the response of the edge function
\* is not ok, data.valid === true otherwise
validateEmail(o) ==
  IF o.kind = "edgeError" THEN TRUE ELSE EdgeValidateEmail(o) = TRUE

\* history kept in the timer: how the lookup ended
LookupTag(o) ==
  IF o.kind \in {"edgeError", "notOk", "throws"} THEN o.kind ELSE "answered"

EmailValidated(r, o) ==
  /\ r \in Has("email")
  /\ o \in EmailLookups
  /\ LET isValid == validateEmail(o) IN
     IF ~isValid
     THEN /\ messages' = Append(Without(messages, "validatingEmail"),
                                Msg("bot", "emailUndeliverable"))
          /\ pending' = Remove(pending, r)
          /\ UNCHANGED <<onboarding, progress>>
     ELSE /\ onboarding' = [onboarding EXCEPT !.email = r.text, !.step = "chat"]
          /\ messages' = Append(r.msgs, Msg("bot", "emailOk"))
          /\ progress' = Capped(progress + 10)
          /\ pending' = Add(Remove(pending, r),
                [Pend("afterEmail") EXCEPT !.reply.status = LookupTag(o)])
  /\ UNCHANGED <<isLoading, documentBase64, chatStarted, faceVerifyTriggered,
                 faceVars, counters, history>>
  /\ UNCHANGED <<streamVars, riskVars, serveVars, accountVars>>

\* ------------------------------------------------------------------------
\* handlePhoneInput after validatePhone, and finalizeAccount
\* ------------------------------------------------------------------------
\* What a phone lookup can end in: as for the email, the upstream answer
\* holding the country code and the valid flag
PhoneLookups ==
  [kind : {"edgeError", "notOk", "throws"}, country : {"none"}, valid : {FALSE}]
  \cup [kind : {"answered"}, country : {"IN", "US"}, valid : BOOLEAN]

\* validatePhone of the edge function: the valid field of its result
EdgeValidatePhone(o) ==
  IF o.kind \in {"notOk", "throws"} THEN FALSE
  ELSE IF o.country # "IN" THEN FALSE
  ELSE o.valid

\* validatePhone of the page: valid when the response of the edge function
\* is not ok, the result of the edge function otherwise
validatePhone(o) ==
  IF o.kind = "edgeError" THEN TRUE ELSE EdgeValidatePhone(o)

\* valid is the valid field of what validatePhone returns
PhoneValidated(r, valid) ==
  /\ r \in Has("phone")
  /\ valid \in BOOLEAN
  /\ IF ~valid
     THEN /\ messages' = Append(Without(messages, "validatingPhone"),
                                Msg("bot", "phoneInvalid"))
          /\ pending' = Remove(pending, r)
          /\ UNCHANGED <<onboarding, progress>>
     ELSE /\ onboarding' = [onboarding EXCEPT !.phone = r.text, !.step = "done"]
          /\ messages' = Append(r.msgs, Msg("bot", "phoneOk"))
          /\ progress' = 100
          /\ pending' = Add(Remove(pending, r),
                [Pend("finalize") EXCEPT !.msgs = Append(r.msgs, Msg("bot", "phoneOk"))])
  /\ UNCHANGED <<isLoading, documentBase64, chatStarted, faceVerifyTriggered,
                 faceVars, counters, history>>
  /\ UNCHANGED <<streamVars, riskVars, serveVars, accountVars>>

\* setTimeout(() => finalizeAccount(newMsgs), 1000)
finalizeAccount(r, accountNumber, ifsc) ==
  /\ r \in Has("finalize")
  /\ accountNumber \in AccountNumbers /\ ifsc \in ifscCodes
  /\ accountsGenerated' = accountsGenerated + 1
  /\ onboarding' = [onboarding EXCEPT !.accountNumber = accountNumber, !.ifsc = ifsc]
  /\ messages' = Append(r.msgs, AccountMsg)
  /\ progress' = 100
  /\ pending' = Remove(pending, r)
  /\ UNCHANGED <<isLoading, documentBase64, chatStarted, faceVerifyTriggered,
                 faceVars, counters>>
  /\ UNCHANGED <<streamVars, riskVars, serveVars, accountVars>>

\* ------------------------------------------------------------------------
\* handleFileUpload
\* ------------------------------------------------------------------------
handleFileUpload ==
  /\ chatStarted /\ nActions < MaxActions
  /\ nActions' = nActions + 1
  /\ messages' = Append(messages, FileMsg)
  /\ pending' = Add(pending, Pend("fileRead"))
  /\ UNCHANGED <<isLoading, onboarding, documentBase64, chatStarted,
                 faceVerifyTriggered, faceVars, history, progress>>
  /\ UNCHANGED <<streamVars, riskVars, serveVars, accountVars>>

\* An onload that marks the documents only while the step is chat
FileLoaded_chatOnly(r) ==
  /\ r \in Has("fileRead")
  /\ documentBase64' = TRUE
  /\ onboarding' = [onboarding EXCEPT
        !.documentsVerified = (@ \/ onboarding.step = "chat")]
  /\ isLoading' = TRUE
  /\ pending' = Add(Remove(pending, r), ChatReq)
  /\ UNCHANGED <<messages, chatStarted, faceVerifyTriggered, faceVars,
                 counters, history, progress>>
  /\ UNCHANGED <<streamVars, riskVars, serveVars, accountVars>>

\* reader.onload
FileLoaded(r) ==
  /\ r \in Has("fileRead")
  /\ documentBase64' = TRUE
  /\ onboarding' = [onboarding EXCEPT !.documentsVerified = TRUE]
  /\ isLoading' = TRUE
  /\ pending' = Add(Remove(pending, r), ChatReq)
  /\ UNCHANGED <<messages, chatStarted, faceVerifyTriggered, faceVars,
                 counters, history, progress>>
  /\ UNCHANGED <<streamVars, riskVars, serveVars, accountVars>>

\* ------------------------------------------------------------------------
\* The face-capture view (FaceVerification)
\* ------------------------------------------------------------------------
\* setShowFaceVerify(true): a new instance of the view is mounted unless one
\* is shown already
Mounted ==
  IF showFaceVerify THEN UNCHANGED faceVars
  ELSE /\ showFaceVerify' = TRUE
       /\ faceGen' = faceGen + 1
       /\ phase' = "camera" /\ countdown' = FALSE /\ resultOk' = FALSE
       /\ resultMsg' = ""
       /\ streamRef' = 0 /\ cameraError' = FALSE
       /\ UNCHANGED activeStreams

\* navigator.mediaDevices.getUserMedia(...): the request of a camera stream
\* by the instance gen of the view, in its effect (initial) or in the
\* handler of Retry (retry)
Acquisition(how, gen) == [Pend("camera") EXCEPT !.emp = how, !.num = gen]

\* The effect of a newly mounted instance requests the camera
WithMount(bag) ==
  IF showFaceVerify THEN bag ELSE Add(bag, Acquisition("initial", faceGen + 1))

\* setShowFaceVerify(false): the instance is unmounted and its state is gone
\* The cleanup of the effect stops the tracks of streamRef.current
Unmounted ==
  /\ showFaceVerify' = FALSE
  /\ phase' = "camera" /\ countdown' = FALSE /\ resultOk' = FALSE
  /\ resultMsg' = ""
  /\ activeStreams' = activeStreams \ {streamRef}
  /\ streamRef' = 0 /\ cameraError' = FALSE
  /\ UNCHANGED faceGen

\* setTimeout(() => setShowFaceVerify(true), 1200)
OpenFaceTimer(r) ==
  /\ r \in Has("openFace")
  /\ Mounted
  /\ pending' = WithMount(Remove(pending, r))
  /\ UNCHANGED <<messages, isLoading, onboarding, documentBase64, chatStarted,
                 faceVerifyTriggered, counters, history, progress>>
  /\ UNCHANGED <<streamVars, riskVars, serveVars, accountVars>>

\* The camera button of the input bar
OpenFaceButton ==
  /\ chatStarted /\ nActions < MaxActions
  /\ ~showFaceVerify
  /\ nActions' = nActions + 1
  /\ Mounted
  /\ pending' = WithMount(pending)
  /\ UNCHANGED <<messages, isLoading, onboarding, documentBase64, chatStarted,
                 faceVerifyTriggered, history, progress>>
  /\ UNCHANGED <<streamVars, riskVars, serveVars, accountVars>>

\* onClose of the view
CloseFace ==
  /\ showFaceVerify
  /\ Unmounted
  /\ UNCHANGED <<messages, isLoading, onboarding, documentBase64, chatStarted,
                 faceVerifyTriggered, pending, counters, history, progress>>
  /\ UNCHANGED <<streamVars, riskVars, serveVars, accountVars>>

\* startCountdown: the callbacks it schedules hold the handleCapture of this
\* render, hence the onVerified closure over the messages of this render
startCountdown ==
  /\ nActions < MaxActions
  /\ showFaceVerify /\ phase = "camera" /\ ~countdown
  /\ ~cameraError
  /\ nActions' = nActions + 1
  /\ countdown' = TRUE
  /\ pending' = Add(pending,
        [Pend("capture") EXCEPT !.num = faceGen, !.msgs = messages,
                                !.docs = documentBase64])
  /\ UNCHANGED <<messages, isLoading, onboarding, documentBase64, chatStarted,
                 faceVerifyTriggered, showFaceVerify, phase, resultOk,
                 resultMsg, faceGen, cameraVars, history, progress>>
  /\ UNCHANGED <<streamVars, riskVars, serveVars, accountVars>>

\* The instance that started r is still the one on screen
Alive(r) == showFaceVerify /\ faceGen = r.num

\* handleCapture up to the fetch; capturePhoto returns null once the video
\* and canvas elements are gone: the instance is unmounted, or the camera
\* error has taken the place of the video
handleCapture(r) ==
  /\ r \in Has("capture")
  /\ IF Alive(r) /\ ~cameraError
     THEN /\ countdown' = FALSE
          /\ phase' = "verifying"
          /\ activeStreams' = activeStreams \ {streamRef}
          /\ pending' = Add(Remove(pending, r), [r EXCEPT !.kind = "face"])
     ELSE /\ pending' = Remove(pending, r)
          /\ countdown' = IF Alive(r) THEN FALSE ELSE countdown
          /\ UNCHANGED <<phase, activeStreams>>
  /\ UNCHANGED <<messages, isLoading, onboarding, documentBase64, chatStarted,
                 faceVerifyTriggered, showFaceVerify, resultOk, resultMsg,
                 faceGen, streamRef, cameraError, counters, history, progress>>
  /\ UNCHANGED <<streamVars, riskVars, serveVars, accountVars>>

\* The MediaStream that getUserMedia resolves with: one that is neither
\* running nor held by streamRef
NewStream ==
  CHOOSE n \in 1..(Cardinality(activeStreams) + 2) :
    /\ n \notin activeStreams \cup {streamRef}
    /\ \A m \in 1..(n - 1) : m \in activeStreams \cup {streamRef}

\* .then of the effect: if (!active) the tracks are stopped at once
KeptByEffect(r) == Alive(r)

\* getUserMedia resolves. The then of the effect keeps the stream only
\* while active; the then of Retry keeps it whenever it comes. streamRef
\* is the ref of the instance on screen: a stream kept by an instance that
\* is gone is held by nothing that is left.
CameraGranted(r) ==
  /\ r \in Has("camera")
  /\ pending' = Remove(pending, r)
  /\ IF r.emp = "initial" /\ ~KeptByEffect(r)
     THEN UNCHANGED <<streamRef, activeStreams>>
     ELSE /\ activeStreams' = activeStreams \cup {NewStream}
          /\ streamRef' = IF Alive(r) THEN NewStream ELSE streamRef
  /\ UNCHANGED <<messages, isLoading, onboarding, documentBase64, chatStarted,
                 faceVerifyTriggered, showFaceVerify, phase, countdown,
                 resultOk, resultMsg, faceGen, cameraError, counters, history,
                 progress>>
  /\ UNCHANGED <<streamVars, riskVars, serveVars, accountVars>>

\* getUserMedia rejects: .catch(() => setCameraError(...))
CameraDenied(r) ==
  /\ r \in Has("camera")
  /\ pending' = Remove(pending, r)
  /\ cameraError' = (cameraError \/ Alive(r))
  /\ UNCHANGED <<messages, isLoading, onboarding, documentBase64, chatStarted,
                 faceVerifyTriggered, showFaceVerify, phase, countdown,
                 resultOk, resultMsg, faceGen, streamRef, activeStreams,
                 counters, history, progress>>
  /\ UNCHANGED <<streamVars, riskVars, serveVars, accountVars>>

\* What the call of the adapter can end in: the fetch or a read throws
\* (neterr), the response is not ok (httperr), the streamed text holds no
\* {...} block (nojson), JSON.parse of the block throws (badjson), or the
\* block is an object whose liveness and match fields are as given
FaceReplies ==
  {[NoReply EXCEPT !.status = st] : st \in {"neterr", "httperr", "nojson", "badjson"}}
  \cup [status : {"json"}, liveness : {"true", "false", "absent"},
        match : {"true", "false", "null", "absent"}]

\* A parser that lets every reply pass the liveness check
Liveness_ignored(reply) == TRUE

\* liveness = parsed.liveness !== false, the default being true
Liveness(reply) == IF reply.status = "json" THEN reply.liveness # "false" ELSE TRUE
\* match = parsed.match !== false, the default being true
Match(reply) == IF reply.status = "json" THEN reply.match # "false" ELSE TRUE
\* success = liveness && (match !== false)
Success(reply) == Liveness(reply) /\ Match(reply)

\* msg: the text of the result panel, with the marker it starts with
ResultMsg(reply) ==
  IF reply.status = "neterr" THEN "networkError"
  ELSE IF ~Liveness(reply) THEN "warning:livenessFailed:reason"
  ELSE IF ~Match(reply) THEN "cross:faceMismatch:reason"
  ELSE "check:faceVerified:reason"

\* handleCapture from the response on
FaceResponse(r, reply) ==
  /\ r \in Has("face")
  /\ reply \in FaceReplies
  /\ LET ok == reply.status # "neterr" /\ Success(reply) IN
     /\ IF Alive(r)
        THEN resultOk' = ok /\ resultMsg' = ResultMsg(reply) /\ phase' = "result"
        ELSE UNCHANGED <<resultOk, resultMsg, phase>>
     /\ pending' = IF ok
                   THEN Add(Remove(pending, r),
                            [r EXCEPT !.kind = "onVerified", !.reply = reply])
                   ELSE Remove(pending, r)
  /\ UNCHANGED <<messages, isLoading, onboarding, documentBase64, chatStarted,
                 faceVerifyTriggered, showFaceVerify, countdown, faceGen,
                 cameraVars, counters, history, progress>>
  /\ UNCHANGED <<streamVars, riskVars, serveVars, accountVars>>

\* The Retry button of a failed result
Retry ==
  /\ showFaceVerify /\ phase = "result" /\ ~resultOk
  /\ phase' = "camera"
  /\ pending' = Add(pending, Acquisition("retry", faceGen))
  /\ UNCHANGED <<messages, isLoading, onboarding, documentBase64, chatStarted,
                 faceVerifyTriggered, showFaceVerify, countdown,
                 resultOk, resultMsg, faceGen, cameraVars, counters, history,
                 progress>>
  /\ UNCHANGED <<streamVars, riskVars, serveVars, accountVars>>

\* handleFaceVerified, called by setTimeout(() => onVerified({success: true, ...}), 2500)
handleFaceVerified(r, success) ==
  /\ r \in Has("onVerified")
  /\ Unmounted
  /\ onboarding' = [onboarding EXCEPT !.faceVerified = success]
  /\ messages' = Append(r.msgs, Msg("bot", IF success THEN "faceOk" ELSE "faceFailed"))
  /\ pending' = IF success
                THEN Add(Remove(pending, r), [Pend("afterFace") EXCEPT !.reply = r.reply])
                ELSE Remove(pending, r)
  /\ progress' = IF success THEN Capped(progress + 15) ELSE progress
  /\ UNCHANGED <<isLoading, documentBase64, chatStarted, faceVerifyTriggered,
                 counters, history>>
  /\ UNCHANGED <<streamVars, riskVars, serveVars, accountVars>>

\* ------------------------------------------------------------------------
\* The session
\* ------------------------------------------------------------------------
Next ==
  \/ StartChat
  \/ \E input \in Texts : sendMessage(input)
  \/ \E r \in BagToSet(pending) : StreamChunk(r)
  \/ \E r \in BagToSet(pending) : \E trig \in SUBSET TriggerKinds : StreamEnd(r, trig)
  \/ \E r \in BagToSet(pending) : StreamHttpError(r)
  \/ \E r \in BagToSet(pending) : StreamException(r)
  \/ \E r \in BagToSet(pending) : \E level \in Levels : RiskScored(r, level)
  \/ \E r \in BagToSet(pending) : RiskFailed(r)
  \/ \E r \in BagToSet(pending) : RequestThrows(r)
  \/ \E r \in BagToSet(pending) : ContinueTimer(r)
  \/ \E r \in BagToSet(pending) : \E o \in EmailLookups : EmailValidated(r, o)
  \/ \E r \in BagToSet(pending) : \E o \in PhoneLookups :
        PhoneValidated(r, validatePhone(o))
  \/ \E r \in BagToSet(pending) : \E a \in AccountNumbers : \E c \in ifscCodes :
        finalizeAccount(r, a, c)
  \/ handleFileUpload
  \/ \E r \in BagToSet(pending) : FileLoaded(r)
  \/ \E r \in BagToSet(pending) : OpenFaceTimer(r)
  \/ OpenFaceButton
  \/ CloseFace
  \/ startCountdown
  \/ \E r \in BagToSet(pending) : handleCapture(r)
  \/ \E r \in BagToSet(pending) : \E reply \in FaceReplies : FaceResponse(r, reply)
  \/ Retry
  \/ \E r \in BagToSet(pending) : CameraGranted(r)
  \/ \E r \in BagToSet(pending) : CameraDenied(r)
  \/ \E r \in BagToSet(pending) : handleFaceVerified(r, TRUE)

Spec == Init /\ [][Next]_vars

\* ------------------------------------------------------------------------
\* The read loop of streamMessage, character by character
\* ------------------------------------------------------------------------
MaxRecords == 2

DataPrefix == <<"d","a","t","a",":"," ">>
DoneToken == <<"[","D","O","N","E","]">>
NL == <<"\n">>

startsWith(s, pre) == Len(s) >= Len(pre) /\ SubSeq(s, 1, Len(pre)) = pre
endsWith(s, c) == Len(s) >= 1 /\ s[Len(s)] = c

\* textBuffer.indexOf("\n"), 1-based; 0 when there is none
NewlineIndex(buf) ==
  IF \E i \in 1..Len(buf) : buf[i] = "\n"
  THEN CHOOSE i \in 1..Len(buf) : buf[i] = "\n" /\ \A j \in 1..(i-1) : buf[j] # "\n"
  ELSE 0

\* JSON.parse(jsonStr) followed by parsed.choices?.[0]?.delta?.content.
\* A chunk document {"choices":[{"delta":{"content":"..."}}]} is written
\* {...} here: an opening brace, the characters of the content, a closing
\* brace.  Any other text makes JSON.parse throw.
JsonOk(str) ==
  /\ Len(str) >= 2 /\ str[1] = "{" /\ str[Len(str)] = "}"
  /\ \A k \in 2..(Len(str) - 1) : str[k] \notin {"{", "}"}
JsonContent(str) == SubSeq(str, 2, Len(str) - 1)

\* A reader that parses every network read on its own
Buffered_perRead(buf, value) == value

\* textBuffer += decoder.decode(value, { stream: true })
Buffered(buf, value) == buf \o value

\* The inner while loop: complete lines are taken off the buffer one by one
RECURSIVE ProcessLines(_, _)
ProcessLines(buf, reply) ==
  LET newlineIndex == NewlineIndex(buf) IN
  IF newlineIndex = 0 THEN [buf |-> buf, reply |-> reply, done |-> FALSE]
  ELSE
    LET raw == SubSeq(buf, 1, newlineIndex - 1)
        rest == SubSeq(buf, newlineIndex + 1, Len(buf))
        line == IF endsWith(raw, "\r") THEN SubSeq(raw, 1, Len(raw) - 1) ELSE raw
        jsonStr == trim(SubSeq(line, 7, Len(line)))
    IN IF startsWith(line, <<":">>) \/ trim(line) = <<>> THEN ProcessLines(rest, reply)
       ELSE IF ~startsWith(line, DataPrefix) THEN ProcessLines(rest, reply)
       ELSE IF jsonStr = DoneToken THEN [buf |-> rest, reply |-> reply, done |-> TRUE]
       ELSE IF JsonOk(jsonStr)
            THEN ProcessLines(rest, reply \o JsonContent(jsonStr))
            ELSE [buf |-> (line \o NL) \o rest, reply |-> reply, done |-> FALSE]

\* One reader.read() that delivers the next n characters of the stream
ReadChunk(n) ==
  /\ reader = "reading"
  /\ n \in 1..Len(wire)
  /\ LET value == SubSeq(wire, 1, n)
         res == ProcessLines(Buffered(textBuffer, value), botReply)
     IN /\ wire' = SubSeq(wire, n + 1, Len(wire))
        /\ textBuffer' = res.buf
        /\ botReply' = res.reply
        /\ reader' = IF res.done THEN "finished" ELSE "reading"
        /\ split' = (split \/ (~res.done /\ res.buf # <<>>))
  /\ UNCHANGED <<records, sessionVars, riskVars, serveVars, accountVars>>

\* reader.read() reports the end of the stream
ReadEnd ==
  /\ reader = "reading"
  /\ wire = <<>>
  /\ reader' = "finished"
  /\ UNCHANGED <<records, wire, textBuffer, botReply, split, sessionVars,
                 riskVars, serveVars, accountVars>>

FACE_TRIGGER_PHRASES ==
  {<<"f","a","c","e"," ","v","e","r","i","f","i","c","a","t","i","o","n">>,
   <<"c","a","m","e","r","a"," ","w","i","l","l"," ","o","p","e","n">>,
   <<"o","p","e","n"," ","t","h","e"," ","c","a","m","e","r","a">>,
   <<"l","i","v","e","n","e","s","s"," ","c","h","e","c","k">>,
   <<"s","e","l","f","i","e">>,
   <<"f","a","c","e"," ","s","c","a","n">>}
INCOME_TRIGGER_PHRASES ==
  {<<"m","o","n","t","h","l","y"," ","i","n","c","o","m","e">>,
   <<"f","i","n","a","n","c","i","a","l"," ","p","r","o","f","i","l","e">>,
   <<"i","n","c","o","m","e"," ","i","n"," ","i","n","r">>,
   <<"y","o","u","r"," ","i","n","c","o","m","e">>}
EMAIL_TRIGGER_PHRASES ==
  {<<"e","m","a","i","l"," ","a","d","d","r","e","s","s">>,
   <<"s","e","n","d"," ","a","c","c","o","u","n","t"," ","d","e","t","a","i","l","s">>,
   <<"y","o","u","r"," ","e","m","a","i","l">>}
PHONE_TRIGGER_PHRASES ==
  {<<"m","o","b","i","l","e"," ","n","u","m","b","e","r">>,
   <<"i","n","d","i","a","n"," ","m","o","b","i","l","e">>,
   <<"p","h","o","n","e"," ","n","u","m","b","e","r">>,
   <<"+","9","1">>,
   <<"s","m","s"," ","c","o","n","f","i","r","m","a","t","i","o","n">>}

\* XXX_TRIGGER_PHRASES.some((p) => lower.includes(p))
Triggers(phrases, lower) == \E p \in phrases : includes(lower, p)

\* The trigger tables that have a phrase in the lower-cased reply
TriggerKindsOf(reply) ==
  LET lower == toLowerCase(reply) IN
  {k \in TriggerKinds :
     \/ k = "face" /\ Triggers(FACE_TRIGGER_PHRASES, lower)
     \/ k = "income" /\ Triggers(INCOME_TRIGGER_PHRASES, lower)
     \/ k = "email" /\ Triggers(EMAIL_TRIGGER_PHRASES, lower)
     \/ k = "phone" /\ Triggers(PHONE_TRIGGER_PHRASES, lower)}

\* An end of streamMessage after which isLoading stays as it is
AfterLoop_keepsLoading ==
  /\ reader = "finished"
  /\ reader' = "idle"
  /\ LET trig == TriggerKindsOf(botReply)
         fire == "face" \in trig /\ ~faceVerifyTriggered
     IN /\ faceVerifyTriggered' = (faceVerifyTriggered \/ fire)
        /\ pending' = IF fire THEN Add(pending, Pend("openFace")) ELSE pending
        /\ onboarding' = [onboarding EXCEPT
                            !.step = TriggeredStep(onboarding.step, trig, onboarding)]
  /\ progress' = Capped(progress + 12)
  /\ UNCHANGED <<messages, isLoading, documentBase64, chatStarted, faceVars,
                 counters, history>>
  /\ UNCHANGED <<records, wire, textBuffer, botReply, split>>
  /\ UNCHANGED <<riskVars, serveVars, accountVars>>

\* streamMessage after the read loop: the trigger detection on the reply,
\* setProgress and setIsLoading(false)
AfterLoop ==
  /\ reader = "finished"
  /\ reader' = "idle"
  /\ LET trig == TriggerKindsOf(botReply)
         fire == "face" \in trig /\ ~faceVerifyTriggered
     IN /\ faceVerifyTriggered' = (faceVerifyTriggered \/ fire)
        /\ pending' = IF fire THEN Add(pending, Pend("openFace")) ELSE pending
        /\ onboarding' = [onboarding EXCEPT
                            !.step = TriggeredStep(onboarding.step, trig, onboarding)]
  /\ progress' = Capped(progress + 12)
  /\ isLoading' = FALSE
  /\ UNCHANGED <<messages, documentBase64, chatStarted, faceVars, counters,
                 history>>
  /\ UNCHANGED <<records, wire, textBuffer, botReply, split>>
  /\ UNCHANGED <<riskVars, serveVars, accountVars>>

\* Event streams made of well-formed data records and ended by [DONE]
Contents == {<<>>, <<"x">>, <<"y"," ">>}
LineEnds == {<<"\n">>, <<"\r","\n">>, <<"\n","\n">>}
\* The sentinel line may also be cut off by the end of the stream
DoneEnds == {<<"\n">>, <<>>}
Record == [content : Contents, eol : LineEnds]

RECURSIVE Encode(_)
Encode(recs) ==
  IF recs = <<>> THEN <<>>
  ELSE (((DataPrefix \o <<"{">>) \o recs[1].content) \o <<"}">>) \o recs[1].eol
       \o Encode(Tail(recs))

RECURSIVE Deltas(_)
Deltas(recs) ==
  IF recs = <<>> THEN <<>> ELSE recs[1].content \o Deltas(Tail(recs))

WellFormedStreams ==
  UNION {[1..k -> Record] : k \in 0..MaxRecords}

StreamInit ==
  /\ SessionStart(TRUE)
  /\ records \in WellFormedStreams
  /\ \E eol \in DoneEnds : wire = (Encode(records) \o (DataPrefix \o DoneToken)) \o eol
  /\ textBuffer = <<>> /\ botReply = <<>>
  /\ reader = "reading" /\ split = FALSE
  /\ RiskIdle /\ ServeIdle /\ AccountIdle

StreamNext ==
  \/ \E n \in 1..Len(wire) : ReadChunk(n)
  \/ ReadEnd
  \/ AfterLoop

StreamSpec == StreamInit /\ [][StreamNext]_vars

\* Event streams that may hold records whose data is no JSON document and
\* that may end without the [DONE] line
Malformed == [content : {<<"{">>}, eol : {<<"\n">>}]
AnyRecord == Record \cup Malformed
AnyStreams == UNION {[1..k -> AnyRecord] : k \in 0..MaxRecords}
Sentinels == {(DataPrefix \o DoneToken) \o <<"\n">>, <<>>}

AnyStreamInit ==
  /\ SessionStart(TRUE)
  /\ records \in AnyStreams
  /\ \E sentinel \in Sentinels : wire = Encode(records) \o sentinel
  /\ textBuffer = <<>> /\ botReply = <<>>
  /\ reader = "reading" /\ split = FALSE
  /\ RiskIdle /\ ServeIdle /\ AccountIdle

AnyStreamSpec == AnyStreamInit /\ [][StreamNext]_vars

\* The end of streamMessage on its own: replies with phrases of the
\* trigger tables, met by a page at any step, with or without an email and
\* a phone recorded
ReplyPlain == <<"h","e","l","l","o">>
ReplyIncome == <<"Y","o","u","r"," ","I","n","c","o","m","e">>
ReplyEmail == <<"y","o","u","r"," ","e","m","a","i","l">>
ReplyPhone == <<"p","h","o","n","e"," ","n","u","m","b","e","r">>
ReplyIncomeEmail == <<"m","o","n","t","h","l","y"," ","i","n","c","o","m","e",","," ","e","m","a","i","l"," ","a","d","d","r","e","s","s">>
ReplyIncomePhone == <<"y","o","u","r"," ","i","n","c","o","m","e"," ","+","9","1">>
ReplyEmailPhone == <<"y","o","u","r"," ","e","m","a","i","l",","," ","m","o","b","i","l","e"," ","n","u","m","b","e","r">>
ReplyAll == <<"M","o","n","t","h","l","y"," ","I","n","c","o","m","e",","," ","Y","o","u","r"," ","E","m","a","i","l",","," ","P","h","o","n","e"," ","N","u","m","b","e","r">>
ReplyFace == <<"s","e","l","f","i","e">>
ReplyFacePhone == <<"f","a","c","e"," ","s","c","a","n",","," ","s","m","s"," ","c","o","n","f","i","r","m","a","t","i","o","n">>
Replies == {ReplyPlain, ReplyIncome, ReplyEmail, ReplyPhone, ReplyIncomeEmail, ReplyIncomePhone, ReplyEmailPhone, ReplyAll, ReplyFace, ReplyFacePhone}
Steps == {"chat", "awaitingIncome", "awaitingEmail", "awaitingPhone", "done"}
Onboardings ==
  {[NewOnboarding EXCEPT !.step = st, !.email = e, !.phone = ph] :
     st \in Steps, e \in {<<>>, TxtEmailOk}, ph \in {<<>>, TxtPhone}}

TriggerInit ==
  /\ \E ob \in Onboardings : \E triggered \in BOOLEAN : PageStart(TRUE, ob, triggered)
  /\ records = <<>> /\ wire = <<>> /\ textBuffer = <<>>
  /\ botReply \in Replies
  /\ reader = "finished" /\ split = FALSE
  /\ RiskIdle /\ ServeIdle /\ AccountIdle

TriggerNext == AfterLoop

TriggerSpec == TriggerInit /\ [][TriggerNext]_vars

\* ------------------------------------------------------------------------
\* Risk scoring of the edge function (calculateRisk)
\* ------------------------------------------------------------------------
\* Scores and z are in tenths, probabilities in millionths, dti in 1/5000
Million == 1000000
DtiUnit == 5000

EmpSalaried   == <<"s","a","l","a","r","i","e","d">>
EmpBusiness   == <<"b","u","s","i","n","e","s","s">>
EmpFreelancer == <<"f","r","e","e","l","a","n","c","e","r">>
EmpStudent    == <<"s","t","u","d","e","n","t">>
EmpRetired    == <<"r","e","t","i","r","e","d">>

\* 1 / (1 + Math.exp(-x)) for x = SigmoidFrom/10, (SigmoidFrom+1)/10, ...
SigmoidFrom == -45
SigmoidTable ==
  <<10987, 12128, 13387, 14774, 16302, 17986, 19840, 21881,
    24127, 26597, 29312, 32295, 35571, 39166, 43107, 47426,
    52154, 57324, 62973, 69138, 75858, 83173, 91123, 99750,
    109097, 119203, 130108, 141851, 154465, 167982, 182426, 197816,
    214165, 231475, 249740, 268941, 289050, 310026, 331812, 354344,
    377541, 401312, 425557, 450166, 475021, 500000, 524979, 549834,
    574443, 598688, 622459, 645656, 668188, 689974, 710950, 731059,
    750260, 768525, 785835, 802184, 817574, 832018, 845535, 858149,
    869892, 880797>>

\* sigmoid
sigmoid(x) == SigmoidTable[x - SigmoidFrom + 1]

b0 == -15

\* An income term whose bands include their lower limit
incomeScore_inclusive(inputs) ==
  IF inputs.monthlyIncome >= 80000 THEN -12
  ELSE IF inputs.monthlyIncome >= 40000 THEN -5
  ELSE IF inputs.monthlyIncome >= 20000 THEN 2
  ELSE IF inputs.monthlyIncome >= 10000 THEN 8
  ELSE 15

incomeScore(inputs) ==
  IF inputs.monthlyIncome > 80000 THEN -12
  ELSE IF inputs.monthlyIncome > 40000 THEN -5
  ELSE IF inputs.monthlyIncome > 20000 THEN 2
  ELSE IF inputs.monthlyIncome > 10000 THEN 8
  ELSE 15

\* employmentScore[inputs.employmentType.toLowerCase()] ?? 0.3
empScore(inputs) ==
  LET t == toLowerCase(inputs.employmentType) IN
  IF t = EmpSalaried THEN -8
  ELSE IF t = EmpBusiness THEN 1
  ELSE IF t = EmpFreelancer THEN 6
  ELSE IF t = EmpStudent THEN 12
  ELSE 3

\* A verification term in which a verified face adds to the score
verifyScore_faceRaises(inputs) ==
  (IF inputs.documentsVerified THEN -4 ELSE 3)
  + (IF inputs.faceVerified THEN 2 ELSE -3)

\* verifyScore
verifyScore(inputs) ==
  (IF inputs.documentsVerified THEN -4 ELSE 3)
  + (IF inputs.faceVerified THEN -3 ELSE 2)

\* A dti without the floor of 10
dti_noFloor(inputs) ==
  IF inputs.employmentType = EmpStudent THEN 55 * DtiUnit
  ELSE IF inputs.employmentType = EmpFreelancer THEN 42 * DtiUnit
  ELSE IF inputs.employmentType = EmpBusiness THEN 35 * DtiUnit
  ELSE 40 * DtiUnit - inputs.monthlyIncome

\* Math.max(10, 40 - (inputs.monthlyIncome / 5000)) for the other types
dti(inputs) ==
  IF inputs.employmentType = EmpStudent THEN 55 * DtiUnit
  ELSE IF inputs.employmentType = EmpFreelancer THEN 42 * DtiUnit
  ELSE IF inputs.employmentType = EmpBusiness THEN 35 * DtiUnit
  ELSE LET d == 40 * DtiUnit - inputs.monthlyIncome
       IN IF d > 10 * DtiUnit THEN d ELSE 10 * DtiUnit

\* A level whose lower threshold is 0.30
riskLevel_030(probability) ==
  IF probability < 300000 THEN "Low"
  ELSE IF probability < 650000 THEN "Medium"
  ELSE "High"

\* level
riskLevel(probability) ==
  IF probability < 350000 THEN "Low"
  ELSE IF probability < 650000 THEN "Medium"
  ELSE "High"

incomeLabel(inputs) ==
  IF inputs.monthlyIncome > 80000 THEN "high income"
  ELSE IF inputs.monthlyIncome > 40000 THEN "moderate income"
  ELSE IF inputs.monthlyIncome > 20000 THEN "lower-moderate income"
  ELSE "low income"

calculateRisk(inputs) ==
  LET z == b0 + incomeScore(inputs) + empScore(inputs) + verifyScore(inputs)
      probability == sigmoid(z)
  IN [probability |-> probability,
      level |-> riskLevel(probability),
      dti |-> dti(inputs),
      explanation |->
        [incomeLabel |-> incomeLabel(inputs),
         verified |-> inputs.documentsVerified /\ inputs.faceVerified]]

\* The riskData a request may carry
RiskIncomes == {0, 5000, 10000, 10001, 20000, 20001, 40000, 40001,
                80000, 80001, 100000, 150000, 200000}
EmploymentTypes == {EmpSalaried, EmpBusiness, EmpFreelancer, EmpStudent,
                    TxtStudent, EmpRetired, <<>>}
RiskInputs == [monthlyIncome : RiskIncomes, employmentType : EmploymentTypes,
               documentsVerified : BOOLEAN, faceVerified : BOOLEAN]

RiskInit ==
  /\ SessionInit /\ StreamIdle
  /\ riskData \in {{inputs} : inputs \in RiskInputs}
  /\ riskResponse = {}
  /\ ServeIdle /\ AccountIdle

\* serve: if (riskData) the result of calculateRisk is the response
ServeRisk ==
  /\ riskData # {} /\ riskResponse = {}
  /\ riskResponse' = {calculateRisk(inputs) : inputs \in riskData}
  /\ UNCHANGED <<riskData, sessionVars, streamVars, serveVars, accountVars>>

RiskNext == ServeRisk

RiskSpec == RiskInit /\ [][RiskNext]_vars

\* ------------------------------------------------------------------------
\* The edge function (serve), in its two variants: the one with the email
\* and phone lookups (index.ts) and the one with document verification and
\* email dispatch (unnamed/part_000)
\* ------------------------------------------------------------------------
UpperChar(c) == IF IsIn(c, Lower) THEN Upper[IndexOf(c, Lower)] ELSE c
toUpperCase(s) == [i \in 1..Len(s) |-> UpperChar(s[i])]
IsUpper(c) == IsIn(c, Upper)

HolderTypes == {"A", "B", "C", "F", "G", "H", "L", "J", "P", "T"}

\* A pattern without the class of the fourth letter
panRegex_anyFourth(s) ==
  /\ Len(s) = 10
  /\ \A i \in 1..5 : IsUpper(s[i])
  /\ \A i \in 6..9 : IsDigit(s[i])
  /\ IsUpper(s[10])

\* /^[A-Z]{3}[ABCFGHLJPT][A-Z]\d{4}[A-Z]$/.test(s)
panRegex(s) ==
  /\ Len(s) = 10
  /\ \A i \in 1..3 : IsUpper(s[i])
  /\ s[4] \in HolderTypes
  /\ IsUpper(s[5])
  /\ \A i \in 6..9 : IsDigit(s[i])
  /\ IsUpper(s[10])

validatePANFormat(pan) ==
  IF ~panRegex(toUpperCase(pan))
  THEN [valid |-> FALSE,
        reason |-> "invalid format. Must be ABCDE1234F (5 letters, 4 digits, 1 letter)"]
  ELSE [valid |-> TRUE, reason |-> "PAN format is valid."]

\* content.match(/\{[\s\S]*\}/): from the first opening brace to the last
\* closing brace after it; the empty text when there is no match
Positions(str, c) == {i \in 1..Len(str) : str[i] = c}
Min(S) == CHOOSE x \in S : \A y \in S : x <= y
Max(S) == CHOOSE x \in S : \A y \in S : x >= y
HasMatch(content) ==
  \E i \in Positions(content, "{") : \E j \in Positions(content, "}") : i < j
jsonMatch(content) ==
  IF HasMatch(content)
  THEN SubSeq(content, Min(Positions(content, "{")), Max(Positions(content, "}")))
  ELSE <<>>

\* The nesting depth of braces after the first k characters of str
RECURSIVE Depth(_, _)
Depth(str, k) ==
  IF k = 0 THEN 0
  ELSE Depth(str, k - 1)
       + (IF str[k] = "{" THEN 1 ELSE IF str[k] = "}" THEN -1 ELSE 0)

\* JSON.parse(str) returns an object: str is one object in braces, objects
\* nested in it allowed; any other text makes JSON.parse throw
ParsesAsObject(str) ==
  /\ Len(str) >= 2 /\ str[1] = "{"
  /\ \A k \in 1..(Len(str) - 1) : Depth(str, k) >= 1
  /\ Depth(str, Len(str)) = 0

Null == [null |-> TRUE, text |-> <<>>]

\* parsed = jsonMatch ? JSON.parse(jsonMatch[0]) : null, null in the catch
ParseVerification(content) ==
  IF HasMatch(content) /\ ParsesAsObject(jsonMatch(content))
  THEN [null |-> FALSE, text |-> jsonMatch(content)]
  ELSE Null

\* The two variants of the function
Variants == {"lookups", "documents"}
Methods == {"OPTIONS", "POST"}

\* riskData of the body: absent, an object without a string employmentType
\* (typed FALSE), or a RiskInputs
SampleInputs ==
  {[monthlyIncome |-> 100000, employmentType |-> EmpSalaried,
    documentsVerified |-> TRUE, faceVerified |-> TRUE],
   [monthlyIncome |-> 5000, employmentType |-> EmpStudent,
    documentsVerified |-> FALSE, faceVerified |-> FALSE]}
NoRiskData ==
  [present |-> FALSE, typed |-> FALSE,
   inputs |-> [monthlyIncome |-> 0, employmentType |-> <<>>,
               documentsVerified |-> FALSE, faceVerified |-> FALSE]]
RiskDatas ==
  {NoRiskData} \cup [present : {TRUE}, typed : BOOLEAN, inputs : SampleInputs]

\* documentVerifyMode of the body, with the panNumber it carries
PanValid      == <<"A","B","C","P","T","1","2","3","4","F">>
PanLower      == <<"a","b","c","p","t","1","2","3","4","f">>
PanMixed      == <<"A","b","c","P","t","1","2","3","4","f">>
PanShort      == <<"A","B","C","D","1","2","3","4","F">>
PanBadFourth  == <<"A","B","C","X","T","1","2","3","4","F">>
PanLetterLast == <<"A","B","C","P","T","1","2","3","A","F">>
PanLong       == <<"A","B","C","P","T","1","2","3","4","F","G">>
PanInputs == {PanValid, PanLower, PanMixed, PanShort, PanBadFourth,
              PanLetterLast, PanLong, <<>>}
DocModes ==
  [present : {FALSE}, panNumber : {<<>>}]
  \cup [present : {TRUE}, panNumber : PanInputs]

\* sendEmail of the body; details: it carries accountDetails
SendEmails ==
  [present : {FALSE}, details : {FALSE}] \cup [present : {TRUE}, details : BOOLEAN]

\* The keys of a parsed body; TRUE is a truthy value of the key, messages
\* TRUE an array of messages
Bodies ==
  [validateEmailReq : BOOLEAN, validatePhoneReq : BOOLEAN, riskData : RiskDatas,
   documentVerifyMode : DocModes, sendEmail : SendEmails,
   faceVerifyMode : BOOLEAN, messages : BOOLEAN]
NoBody ==
  [validateEmailReq |-> FALSE, validatePhoneReq |-> FALSE, riskData |-> NoRiskData,
   documentVerifyMode |-> [present |-> FALSE, panNumber |-> <<>>],
   sendEmail |-> [present |-> FALSE, details |-> FALSE],
   faceVerifyMode |-> FALSE, messages |-> FALSE]

\* json: req.json() returns the body instead of throwing
ServeRequests ==
  [variant : Variants, method : Methods, json : {TRUE}, body : Bodies]
  \cup [variant : Variants, method : Methods, json : {FALSE}, body : {NoBody}]
Envs == [LOVABLE_API_KEY : BOOLEAN, RESEND_API_KEY : BOOLEAN]

\* What a fetch of another service ends in
FetchOutcomes ==
  [kind : {"throws"}, status : {0}]
  \cup [kind : {"status"}, status : {200, 429, 402, 503}]

\* The message content of the model's reply to a document verification;
\* the reply may also be a body that response.json() cannot parse
DocContents ==
  {<<"{","a","}">>, <<"x","{","a","}","y">>, <<"{","a","{","b","}","}">>,
   <<"{","a","}"," ","{","b","}">>, <<"{","a","}","}">>,
   <<"n","o">>, <<"{","a">>, <<>>}
DocReplies == [json : {TRUE}, content : DocContents]
              \cup [json : {FALSE}, content : {<<>>}]

Resp(status, kind, error, data) ==
  [status |-> status, kind |-> kind, error |-> error, data |-> data]
\* A catch that answers nothing
Caught_unanswered(message) == NoResponse
\* The catch of serve
Caught(message) == Resp(500, "error", message, <<>>)
Call(to, panCheck) == [to |-> to, panCheck |-> panCheck]

ServeInit ==
  /\ SessionInit /\ StreamIdle /\ RiskIdle
  /\ request \in ServeRequests
  /\ env \in Envs
  /\ response = NoResponse /\ upstream = <<>> /\ handled = <<>>
  /\ AccountIdle

\* if (req.method === "OPTIONS") return new Response(null, ...)
Options ==
  /\ response = NoResponse
  /\ request.method = "OPTIONS"
  /\ response' = Resp(200, "empty", "", <<>>)
  /\ UNCHANGED <<request, env, upstream, handled>>
  /\ UNCHANGED <<sessionVars, streamVars, riskVars, accountVars>>

\* req.json() throws
BodyUnparseable ==
  /\ response = NoResponse
  /\ request.method # "OPTIONS" /\ ~request.json
  /\ response' = Caught("Unexpected token")
  /\ UNCHANGED <<request, env, upstream, handled>>
  /\ UNCHANGED <<sessionVars, streamVars, riskVars, accountVars>>

\* A key check that comes after the call of the gateway
KeyMissing_afterCall ==
  /\ response = NoResponse
  /\ request.method # "OPTIONS" /\ request.json
  /\ ~env.LOVABLE_API_KEY
  /\ response' = Resp(500, "error", "LOVABLE_API_KEY is not configured", <<>>)
  /\ upstream' = Append(upstream, [to |-> "gateway", panCheck |-> {}])
  /\ UNCHANGED <<request, env, handled>>
  /\ UNCHANGED <<sessionVars, streamVars, riskVars, accountVars>>

\* if (!LOVABLE_API_KEY) throw new Error(...)
KeyMissing ==
  /\ response = NoResponse
  /\ request.method # "OPTIONS" /\ request.json
  /\ ~env.LOVABLE_API_KEY
  /\ response' = Caught("LOVABLE_API_KEY is not configured")
  /\ UNCHANGED <<request, env, upstream, handled>>
  /\ UNCHANGED <<sessionVars, streamVars, riskVars, accountVars>>

\* A chain that looks at documentVerifyMode before riskData
Dispatch_documentFirst(req) ==
  IF req.variant = "lookups"
  THEN IF req.body.validateEmailReq THEN "validateEmail"
       ELSE IF req.body.validatePhoneReq THEN "validatePhone"
       ELSE IF req.body.riskData.present THEN "risk"
       ELSE IF req.body.faceVerifyMode THEN "faceVerify"
       ELSE "chat"
  ELSE IF req.body.documentVerifyMode.present THEN "documentVerify"
       ELSE IF req.body.riskData.present THEN "risk"
       ELSE IF req.body.sendEmail.present THEN "sendEmail"
       ELSE IF req.body.faceVerifyMode THEN "faceVerify"
       ELSE "chat"

\* The chain of if statements after the key check
Dispatch(req) ==
  IF req.variant = "lookups"
  THEN IF req.body.validateEmailReq THEN "validateEmail"
       ELSE IF req.body.validatePhoneReq THEN "validatePhone"
       ELSE IF req.body.riskData.present THEN "risk"
       ELSE IF req.body.faceVerifyMode THEN "faceVerify"
       ELSE "chat"
  ELSE IF req.body.riskData.present THEN "risk"
       ELSE IF req.body.documentVerifyMode.present THEN "documentVerify"
       ELSE IF req.body.sendEmail.present THEN "sendEmail"
       ELSE IF req.body.faceVerifyMode THEN "faceVerify"
       ELSE "chat"

Selected(name) ==
  /\ response = NoResponse
  /\ request.method # "OPTIONS" /\ request.json /\ env.LOVABLE_API_KEY
  /\ Dispatch(request) = name
  /\ handled' = Append(handled, name)
  /\ UNCHANGED <<request, env>>
  /\ UNCHANGED <<sessionVars, streamVars, riskVars, accountVars>>

\* if (validateEmailReq): validateEmail catches what its lookup throws
HandleValidateEmail(o) ==
  /\ Selected("validateEmail")
  /\ o \in EmailLookups /\ o.kind # "edgeError"
  /\ upstream' = Append(upstream, Call("emailService", {}))
  /\ response' = Resp(200, "validity", "", EdgeValidateEmail(o))

\* if (validatePhoneReq)
HandleValidatePhone(o) ==
  /\ Selected("validatePhone")
  /\ o \in PhoneLookups /\ o.kind # "edgeError"
  /\ upstream' = Append(upstream, Call("phoneService", {}))
  /\ response' = Resp(200, "validity", "", EdgeValidatePhone(o))

\* A risk handler that fails for students
HandleRisk_rejectsStudents ==
  /\ Selected("risk")
  /\ response' = IF /\ request.body.riskData.typed
                     /\ request.body.riskData.inputs.employmentType # EmpStudent
                  THEN Resp(200, "risk", "", calculateRisk(request.body.riskData.inputs))
                  ELSE Resp(500, "error", "Cannot read properties of undefined", <<>>)
  /\ UNCHANGED upstream

\* if (riskData): inputs.employmentType.toLowerCase() throws a TypeError
\* when employmentType is not a string
HandleRisk ==
  /\ Selected("risk")
  /\ response' = IF request.body.riskData.typed
                  THEN Resp(200, "risk", "", calculateRisk(request.body.riskData.inputs))
                  ELSE Caught("Cannot read properties of undefined")
  /\ UNCHANGED upstream

\* if (!response.ok) of the document handler
DocumentError(status) ==
  Resp(status, "error", "Document verification failed", <<>>)

\* if (documentVerifyMode) (documents variant)
HandleDocumentVerify(o, reply) ==
  /\ Selected("documentVerify")
  /\ o \in FetchOutcomes /\ reply \in DocReplies
  /\ LET panNumber == request.body.documentVerifyMode.panNumber
         panCheck == IF panNumber # <<>> THEN {validatePANFormat(panNumber)} ELSE {}
     IN upstream' = Append(upstream, Call("gateway", panCheck))
  /\ response' =
       IF o.kind = "throws" THEN Caught("fetch failed")
       ELSE IF o.status # 200 THEN DocumentError(o.status)
       ELSE IF ~reply.json THEN Caught("Unexpected token")
       ELSE Resp(200, "verification", "",
                 [verification |-> ParseVerification(reply.content),
                  raw |-> reply.content])

\* if (sendEmail) (documents variant): the fetch has a try of its own
HandleSendEmail(o) ==
  /\ Selected("sendEmail")
  /\ o \in FetchOutcomes
  /\ IF ~env.RESEND_API_KEY
     THEN /\ response' = Resp(500, "error", "Email service not configured", <<>>)
          /\ UNCHANGED upstream
     ELSE IF ~request.body.sendEmail.details
     THEN /\ response' = Caught("Cannot read properties of undefined")
          /\ UNCHANGED upstream
     ELSE /\ upstream' = Append(upstream, Call("resend", {}))
          /\ response' =
               IF o.kind = "throws"
               THEN Resp(500, "error", "Email service error", <<>>)
               ELSE IF o.status # 200
               THEN Resp(500, "error", "Failed to send email", <<>>)
               ELSE Resp(200, "success", "", <<>>)

\* if (!response.ok) of the face handler
FaceError(status) == Resp(500, "error", "Face verification failed", <<>>)

\* if (faceVerifyMode): ...messages throws when messages is no array
HandleFaceVerify(o) ==
  /\ Selected("faceVerify")
  /\ o \in FetchOutcomes
  /\ IF ~request.body.messages
     THEN /\ response' = Caught("messages is not iterable")
          /\ UNCHANGED upstream
     ELSE /\ upstream' = Append(upstream, Call("gateway", {}))
          /\ response' =
               IF o.kind = "throws" THEN Caught("fetch failed")
               ELSE IF o.status # 200 THEN FaceError(o.status)
               ELSE Resp(200, "stream", "", <<>>)

\* if (!response.ok) of the chat handler
ChatError(status) ==
  IF status = 429
  THEN Resp(429, "error", "Rate limit exceeded. Please try again later.", <<>>)
  ELSE IF status = 402
  THEN Resp(402, "error", "Usage limit reached. Please add credits.", <<>>)
  ELSE Resp(500, "error", "AI gateway error", <<>>)

\* The main chat: messages[messages.length - 1] throws when messages is
\* no array
HandleChat(o) ==
  /\ Selected("chat")
  /\ o \in FetchOutcomes
  /\ IF ~request.body.messages
     THEN /\ response' = Caught("Cannot read properties of undefined")
          /\ UNCHANGED upstream
     ELSE /\ upstream' = Append(upstream, Call("gateway", {}))
          /\ response' =
               IF o.kind = "throws" THEN Caught("fetch failed")
               ELSE IF o.status # 200 THEN ChatError(o.status)
               ELSE Resp(200, "stream", "", <<>>)

ServeNext ==
  \/ Options
  \/ BodyUnparseable
  \/ KeyMissing
  \/ \E o \in EmailLookups : HandleValidateEmail(o)
  \/ \E o \in PhoneLookups : HandleValidatePhone(o)
  \/ HandleRisk
  \/ \E o \in FetchOutcomes : \E reply \in DocReplies : HandleDocumentVerify(o, reply)
  \/ \E o \in FetchOutcomes : HandleSendEmail(o)
  \/ \E o \in FetchOutcomes : HandleFaceVerify(o)
  \/ \E o \in FetchOutcomes : HandleChat(o)

ServeSpec == ServeInit /\ [][ServeNext]_vars

\* ------------------------------------------------------------------------
\* generateAccountDetails
\* ------------------------------------------------------------------------
\* A value of Math.random() is written by its decimal expansion: zeros
\* zeros after the point, then digits, the last of them not 0; no digits is
\* the value 0. The second value, which picks the code, is in thousandths.
RandomUnit == 1000
Digits17 == <<"1","2","3","4","5","6","7","8","9","0","1","2","3","4","5","6","7">>
Digits11 == <<"1","2","3","4","5","6","7","8","9","0","1">>
Digits10 == <<"1","2","3","4","5","6","7","8","9","1">>
Digits1  == <<"5">>
RandomValues ==
  [digits : {Digits17, Digits11, Digits10, Digits1}, zeros : {0, 1, 6}]
  \cup {[digits |-> <<>>, zeros |-> 0]}
Randoms == [account : RandomValues, ifsc : {0, 333, 334, 666, 667, 999}]

Zeros(n) == [i \in 1..n |-> "0"]

\* Number.prototype.toString of a value in [0, 1): 0, the decimal notation
\* down to 0.000001, the exponent notation d.ddde-n below that
NumberToString(x) ==
  IF x.digits = <<>> THEN <<"0">>
  ELSE IF x.zeros < 6 THEN (<<"0", ".">> \o Zeros(x.zeros)) \o x.digits
  ELSE ((<<x.digits[1]>>
         \o (IF Len(x.digits) > 1 THEN <<".">> \o Tail(x.digits) ELSE <<>>))
        \o <<"e", "-">>) \o <<Digits[x.zeros + 2]>>

\* String.prototype.slice(from, to) with 0 <= from <= to
slice(str, from, to) ==
  SubSeq(str, from + 1, IF to < Len(str) THEN to ELSE Len(str))

ifscArray == <<"ONBX0001234", "ONBX0005678", "ONBX0009012">>

\* "3" + Math.random().toString().slice(2, 13)
accountNumberOf(x) == <<"3">> \o slice(NumberToString(x), 2, 13)

generateAccountDetails(rnd) ==
  [accountNumber |-> accountNumberOf(rnd.account),
   ifsc |-> ifscArray[((rnd.ifsc * Len(ifscArray)) \div RandomUnit) + 1]]

AccountInit ==
  /\ SessionInit /\ StreamIdle /\ RiskIdle /\ ServeIdle
  /\ random \in Randoms
  /\ generated = {}

\* One call of generateAccountDetails
Generate ==
  /\ generated = {}
  /\ generated' = {generateAccountDetails(random)}
  /\ UNCHANGED <<random, sessionVars, streamVars, riskVars, serveVars>>

AccountNext == Generate

AccountSpec == AccountInit /\ [][AccountNext]_vars

\* ------------------------------------------------------------------------
\* Properties of risk scoring
\* ------------------------------------------------------------------------
\* C20: for every RiskInputs the probability lies in [0,1] and the level is
\* determined by the probability alone: Low exactly when it is below 0.35,
\* Medium when it is at least 0.35 and below 0.65, High otherwise.
C20_LevelFollowsProbability ==
  \A res \in riskResponse :
     /\ 0 <= res.probability /\ res.probability <= Million
     /\ (res.level = "Low" <=> res.probability * 100 < 35 * Million)
     /\ (res.level = "Medium" <=> /\ res.probability * 100 >= 35 * Million
                                  /\ res.probability * 100 < 65 * Million)
     /\ (res.level = "High" <=> res.probability * 100 >= 65 * Million)

\* A probability between 0.30 and 0.35 has been scored Low
C20_Witness ==
  \E res \in riskResponse :
     /\ res.level = "Low"
     /\ res.probability * 100 > 30 * Million
     /\ res.probability * 100 < 35 * Million

\* The terms of z as the tables give them, in tenths
IncomeTerm(income) ==
  CASE income > 80000 -> -12
    [] income <= 80000 /\ income > 40000 -> -5
    [] income <= 40000 /\ income > 20000 -> 2
    [] income <= 20000 /\ income > 10000 -> 8
    [] OTHER -> 15
EmploymentTerm(type) ==
  CASE type = EmpSalaried -> -8
    [] type = EmpBusiness -> 1
    [] type = EmpFreelancer -> 6
    [] type = EmpStudent -> 12
    [] OTHER -> 3
VerificationTerm(docs, face) ==
  (IF docs THEN -4 ELSE 3) + (IF face THEN -3 ELSE 2)
ZOf(inputs) ==
  -15 + IncomeTerm(inputs.monthlyIncome)
      + EmploymentTerm(toLowerCase(inputs.employmentType))
      + VerificationTerm(inputs.documentsVerified, inputs.faceVerified)

\* C21: for every input the probability is the sigmoid of z = -1.5 + income
\* term + employment term + verification term, the terms taken from the
\* tables; (100000, salaried, true, true) gives z = -4.2 and level Low, and
\* (5000, student, false, false) gives level High.
C21_ZFollowsTables ==
  \A inputs \in riskData : \A res \in riskResponse :
     /\ res.probability = sigmoid(ZOf(inputs))
     /\ (inputs = [monthlyIncome |-> 100000, employmentType |-> EmpSalaried,
                   documentsVerified |-> TRUE, faceVerified |-> TRUE]
           => ZOf(inputs) = -42 /\ res.probability = sigmoid(-42)
              /\ res.level = "Low")
     /\ (inputs = [monthlyIncome |-> 5000, employmentType |-> EmpStudent,
                   documentsVerified |-> FALSE, faceVerified |-> FALSE]
           => res.level = "High")

\* (100000, salaried, true, true) has been scored
C21_Witness ==
  /\ riskData = {[monthlyIncome |-> 100000, employmentType |-> EmpSalaried,
                  documentsVerified |-> TRUE, faceVerified |-> TRUE]}
  /\ \E res \in riskResponse : res.level = "Low"

\* C22: dti is exactly 55 for student, 42 for freelancer, 35 for business
\* and max(10, 40 - monthlyIncome/5000) for a type that is none of the three
\* in any letter case; for every input dti is at least 10.
C22_DtiTable ==
  \A inputs \in riskData : \A res \in riskResponse :
     LET type == inputs.employmentType
         rest == 40 * DtiUnit - inputs.monthlyIncome
     IN /\ (type = EmpStudent => res.dti = 55 * DtiUnit)
        /\ (type = EmpFreelancer => res.dti = 42 * DtiUnit)
        /\ (type = EmpBusiness => res.dti = 35 * DtiUnit)
        /\ (toLowerCase(type) \notin {EmpStudent, EmpFreelancer, EmpBusiness}
              => /\ (rest >= 10 * DtiUnit => res.dti = rest)
                 /\ (rest < 10 * DtiUnit => res.dti = 10 * DtiUnit))
        /\ res.dti >= 10 * DtiUnit

\* An income of 200000 of a salaried customer has the floor 10 as its dti
C22_Witness ==
  \E inputs \in riskData : \E res \in riskResponse :
     /\ inputs.monthlyIncome = 200000 /\ inputs.employmentType = EmpSalaried
     /\ res.dti = 10 * DtiUnit

\* C23: two inputs that differ only in the letter case of employmentType
\* get the same probability, level and dti: the result of an input is the
\* result of the input with its employmentType in lower case.
C23_CaseInsensitive ==
  \A inputs \in riskData : \A res \in riskResponse :
     LET lower == calculateRisk([inputs EXCEPT !.employmentType = toLowerCase(@)])
     IN /\ res.probability = lower.probability
        /\ res.level = lower.level
        /\ res.dti = lower.dti

\* ------------------------------------------------------------------------
\* Properties of the read loop
\* ------------------------------------------------------------------------
\* C9: for an event stream of well-formed data records ended by [DONE], the
\* reply accumulated when the read loop ends is the in-order concatenation
\* of the records' delta contents, however the characters were split into
\* network reads.
C9_ReplyIsConcatenation ==
  reader = "finished" => botReply = Deltas(records)

\* A stream of MaxRecords records has been read to its end, with a read that
\* ended inside a line, and the reply is not empty
C9_Witness ==
  /\ reader = "finished" /\ split
  /\ Len(records) = MaxRecords /\ botReply # <<>>

\* ------------------------------------------------------------------------
\* Properties of the session
\* ------------------------------------------------------------------------
AccountMessages == {i \in DOMAIN messages : messages[i].isAccountDetails}
OnVerifiedIn(bag) == {r \in BagToSet(bag) : r.kind = "onVerified"}
RiskIn(bag) == {r \in BagToSet(bag) : r.kind = "risk"}
Count(bag, S) == BagCardinality([r \in S |-> bag[r]])

\* C1: account finalization fires at most once per chat session: at most one
\* account number is generated and at most one account-details message is in
\* the chat, over every interleaving of sends, uploads, responses and timers.
C1_FinalizeAtMostOnce ==
  accountsGenerated <= 1 /\ Cardinality(AccountMessages) <= 1

\* C2: whenever the account-details message has been emitted, the documents
\* and the face are verified and, unless the employment type is student, the
\* monthly income is recorded.
C2_FinalizeOnlyWhenComplete ==
  accountsGenerated > 0 =>
     /\ onboarding.documentsVerified
     /\ onboarding.faceVerified
     /\ (onboarding.employmentType = "student" \/ onboarding.monthlyIncome # NoIncome)

\* C3: a session whose employmentType is student never moves to step
\* awaitingIncome, whatever the assistant replies contain, and no risk-scoring
\* request is issued for it.
C3_StudentNeverAwaitsIncome ==
  [][onboarding.employmentType = "student" =>
        /\ (onboarding.step # "awaitingIncome" => onboarding'.step # "awaitingIncome")
        /\ RiskIn(pending') \subseteq RiskIn(pending)]_vars

\* C4: the step only moves forward: apart from the return to chat, no step
\* goes from a later collection step to an earlier one, step does not become
\* awaitingIncome again once the income is recorded, nor awaitingEmail again
\* once the email is recorded.
C4_StepMonotonic ==
  [][/\ (onboarding'.step # "chat" => Rank(onboarding'.step) >= Rank(onboarding.step))
     /\ (onboarding.monthlyIncome # NoIncome /\ onboarding.step # "awaitingIncome"
           => onboarding'.step # "awaitingIncome")
     /\ (onboarding.email # <<>> /\ onboarding.step # "awaitingEmail"
           => onboarding'.step # "awaitingEmail")]_vars

\* C5: done is terminal: once step is done it stays done, and a user text sent
\* in done changes nothing of the onboarding record.
C5_DoneIsTerminal ==
  [][onboarding.step = "done" =>
        /\ onboarding'.step = "done"
        /\ ((\E input \in Texts : sendMessage(input)) => onboarding' = onboarding)]_vars

\* C6: faceVerified becomes true only through the callback of a capture
\* whose adapter reply has neither liveness false nor match false: a reply
\* with an explicit false schedules no callback (so {liveness: false, match:
\* null} never sets faceVerified), and a parsed reply without an explicit
\* false (so {liveness: true} with match omitted) does schedule it.
C6_FaceVerifiedOnlyAfterPassingReply ==
  [][/\ \A r \in OnVerifiedIn(pending') :
           r.reply.liveness # "false" /\ r.reply.match # "false"
     /\ (~onboarding.faceVerified /\ onboarding'.faceVerified
           => Count(pending', OnVerifiedIn(pending')) < Count(pending, OnVerifiedIn(pending)))
     /\ (Count(pending', OnVerifiedIn(pending')) < Count(pending, OnVerifiedIn(pending))
           => onboarding'.faceVerified)
     /\ \A r \in BagToSet(pending) : \A reply \in FaceReplies :
           (FaceResponse(r, reply) /\ reply.status = "json")
             => ((reply.liveness # "false" /\ reply.match # "false")
                   <=> Count(pending', OnVerifiedIn(pending'))
                         = Count(pending, OnVerifiedIn(pending)) + 1)]_vars

\* The reply {liveness: true}, match omitted, has set faceVerified
C6_Witness ==
  /\ onboarding.faceVerified
  /\ \E r \in Has("afterFace") :
        r.reply = [status |-> "json", liveness |-> "true", match |-> "absent"]

\* C7: a face-verification request that ends with a non-success HTTP status
\* or a network failure is reported as a failure and is never treated as a
\* pass: it schedules no onVerified callback and shows no successful result.
C7_TransportFailureIsNotAPass ==
  [][\A r \in BagToSet(pending) : \A reply \in FaceReplies :
        (FaceResponse(r, reply) /\ reply.status \in {"httperr", "neterr"})
          => /\ Count(pending', OnVerifiedIn(pending'))
                  = Count(pending, OnVerifiedIn(pending))
             /\ (Alive(r) => ~resultOk')]_vars

\* C8: at most one request to the completion/verification capability is in
\* flight at any time.
C8_OneRequestInFlight == InFlight <= 1

\* C10: in awaitingIncome, a text whose reduction to digits and dots is not a
\* number or is below 1000 is rejected with a re-prompt: monthlyIncome,
\* riskResult and step are left unchanged and no request is made.
C10_LowIncomeRejected ==
  [][\A input \in Texts :
        LET income == parseFloat(StripNonNumeric(trim(input))) IN
        (/\ onboarding.step = "awaitingIncome"
         /\ sendMessage(input)
         /\ (income = NaN \/ income < 1000 * Scale))
          => /\ onboarding'.monthlyIncome = onboarding.monthlyIncome
             /\ onboarding'.riskResult = onboarding.riskResult
             /\ onboarding'.step = "awaitingIncome"
             /\ pending' = pending
             /\ messages' = Append(Append(messages, UserMsg), Msg("bot", "incomePrompt"))]_vars

\* An income below the minimum has been answered by the re-prompt
C10_Witness ==
  /\ onboarding.step = "awaitingIncome" /\ onboarding.monthlyIncome = NoIncome
  /\ messages # <<>> /\ messages[Len(messages)].content = "incomePrompt"
  /\ RiskIn(pending) = {}

\* C11: in awaitingIncome, a text whose amount is at least 1000 records
\* monthlyIncome, returns step to chat and adds exactly one risk-scoring
\* request, which carries that income, the employmentType of the session
\* (salaried standing in for an empty one) and the session's
\* documentsVerified and faceVerified flags.
C11_ValidIncomeRequestsRisk ==
  [][\A input \in Texts :
        LET income == parseFloat(StripNonNumeric(trim(input))) IN
        (/\ onboarding.step = "awaitingIncome"
         /\ sendMessage(input)
         /\ income # NaN /\ income >= 1000 * Scale)
          => /\ onboarding'.monthlyIncome = income
             /\ onboarding'.step = "chat"
             /\ \E q \in RiskIn(pending') :
                   /\ pending' = Add(pending, q)
                   /\ q.num = income
                   /\ q.emp = (IF onboarding'.employmentType # ""
                               THEN onboarding'.employmentType ELSE "salaried")
                   /\ q.docs = onboarding'.documentsVerified
                   /\ q.face = onboarding'.faceVerified]_vars

\* The employment keywords
Keywords == {<<"f","r","e","e","l","a","n">>, <<"s","a","l","a","r">>,
             <<"b","u","s","i","n","e","s","s">>, <<"o","w","n","e","r">>,
             <<"s","t","u","d","e","n","t">>}
MentionsEmployment(text) == \E k \in Keywords : includes(toLowerCase(text), k)

\* C12: employmentType is set by the first sent user message that contains
\* an employment keyword, whatever the case of its letters: while it is
\* empty, a sent message sets it exactly when it contains a keyword; only a
\* sent message changes it; once set it never changes.
C12_EmploymentFirstWins ==
  [][/\ (onboarding.employmentType # ""
           => onboarding'.employmentType = onboarding.employmentType)
     /\ (onboarding'.employmentType # onboarding.employmentType
           => \E input \in Texts : sendMessage(input))
     /\ \A input \in Texts :
           (sendMessage(input) /\ onboarding.employmentType = "")
             => (onboarding'.employmentType # "" <=> MentionsEmployment(input))]_vars

\* The session is a student's and the later message "owner 2000" was sent
\* as its income
C12_Witness ==
  /\ onboarding.employmentType = "student"
  /\ onboarding.monthlyIncome = 2000 * Scale

FileReads(bag) == {r \in BagToSet(bag) : r.kind = "fileRead"}

\* C13: a document upload is accepted whatever the step and whether or not
\* a request is in flight; choosing the file changes no onboarding field,
\* and the end of the file read sets documentsVerified, before any verdict
\* on the document exists, and changes no other onboarding field.
C13_UploadMarksDocuments ==
  [][/\ (chatStarted /\ nActions < MaxActions => ENABLED handleFileUpload)
     /\ (handleFileUpload
           => /\ onboarding' = onboarding
              /\ Count(pending', FileReads(pending'))
                    = Count(pending, FileReads(pending)) + 1)
     /\ \A r \in FileReads(pending) : ENABLED FileLoaded(r)
     /\ \A r \in BagToSet(pending) :
           FileLoaded(r)
             => onboarding' = [onboarding EXCEPT !.documentsVerified = TRUE]]_vars

\* A file chosen in step awaitingPhone has been read: the documents are
\* marked while its verification request is still unanswered
C13_Witness ==
  /\ onboarding.step = "awaitingPhone" /\ onboarding.documentsVerified
  /\ messages # <<>> /\ messages[Len(messages)].isFile
  /\ \E q \in Has("chat") : q.num = 0

\* A reply has triggered face verification and no capture result is there:
\* none is shown by the capture view, none is on its way to the page and
\* none has set faceVerified
FaceAwaiting ==
  /\ faceVerifyTriggered /\ ~onboarding.faceVerified
  /\ phase # "result" /\ Has("onVerified") = {}

\* C14: from the moment an assistant reply triggers face verification until
\* a capture result arrives, the session is in a face-awaiting state in
\* which free-text input and the send action are blocked: no message is
\* sent in that interval.
C14_FaceAwaitingBlocksSend ==
  [][FaceAwaiting => ~(\E input \in Texts : sendMessage(input))]_vars

\* The chat messages that show the reason of a failed capture
WarningMessages(msgs) ==
  {i \in DOMAIN msgs : msgs[i].role = "bot" /\ msgs[i].content = "faceFailed"}

\* C15: a failed face-capture result leaves faceVerified false, leaves the
\* capture view waiting for a retry, and adds to the chat a message with the
\* adapter's reason text behind a warning marker.
C15_FailedCaptureIsSurfaced ==
  [][\A r \in BagToSet(pending) : \A reply \in FaceReplies :
        (/\ FaceResponse(r, reply) /\ Alive(r)
         /\ ~(reply.status # "neterr" /\ Success(reply)))
          => /\ (~onboarding.faceVerified => ~onboarding'.faceVerified)
             /\ showFaceVerify' /\ phase' = "result" /\ ~resultOk'
             /\ Cardinality(WarningMessages(messages'))
                   = Cardinality(WarningMessages(messages)) + 1]_vars

EmailRequestsIn(bag) == {r \in BagToSet(bag) : r.kind = "email"}

\* The inputs that are not of the form local@domain.tld, a@b among them
MalformedEmails == Texts \ {TxtEmailOk}

\* C16: in awaitingEmail, a text that does not match the email format is
\* answered by a re-prompt: no deliverability request is sent, the email
\* field stays empty and step stays awaitingEmail.
C16_MalformedEmailRejected ==
  [][\A input \in MalformedEmails :
        (onboarding.step = "awaitingEmail" /\ sendMessage(input))
          => /\ pending' = pending
             /\ onboarding'.email = <<>>
             /\ onboarding'.step = "awaitingEmail"
             /\ messages' = Append(Append(messages, UserMsg),
                                   Msg("bot", "emailPrompt"))]_vars

\* A malformed email has been answered by the re-prompt
C16_Witness ==
  /\ onboarding.step = "awaitingEmail" /\ onboarding.email = <<>>
  /\ messages # <<>> /\ messages[Len(messages)].content = "emailPrompt"
  /\ EmailRequestsIn(pending) = {}

\* C17: in awaitingEmail, the input skip is accepted without passing the
\* email format: it is not answered by the re-prompt, the step leaves
\* awaitingEmail and no email is recorded.
C17_SkipAccepted ==
  [][(onboarding.step = "awaitingEmail" /\ sendMessage(TxtSkip))
        => /\ onboarding'.step # "awaitingEmail"
           /\ onboarding'.email = <<>>
           /\ messages'[Len(messages')].content # "emailPrompt"]_vars

FailedLookups == {"edgeError", "notOk", "throws"}

\* C18: when the deliverability lookup of a format-valid email fails (the
\* upstream service answers with a non-success status, the lookup throws,
\* or the edge function answers with an error), the email is accepted and
\* recorded and the step leaves awaitingEmail.
C18_EmailFailOpen ==
  [][\A r \in BagToSet(pending) : \A o \in EmailLookups :
        (EmailValidated(r, o) /\ o.kind \in FailedLookups)
          => /\ emailRegex(r.text)
             /\ onboarding'.email = r.text
             /\ onboarding'.step # "awaitingEmail"
             /\ messages'[Len(messages')].content = "emailOk"]_vars

\* An email was recorded after the upstream service answered with a
\* non-success status
C18_Witness ==
  /\ onboarding.email = TxtEmailOk /\ onboarding.step # "awaitingEmail"
  /\ \E t \in Has("afterEmail") : t.reply.status = "notOk"

\* C19: when the phone lookup fails (the upstream service answers with a
\* non-success status, or the lookup throws), the phone number is accepted:
\* it is recorded, the step becomes done and finalization is scheduled.
C19_PhoneFailOpen ==
  [][\A r \in BagToSet(pending) : \A o \in PhoneLookups :
        (PhoneValidated(r, validatePhone(o)) /\ o.kind \in {"notOk", "throws"})
          => /\ onboarding'.phone = r.text
             /\ onboarding'.step = "done"
             /\ \E t \in BagToSet(pending') : t.kind = "finalize"]_vars

\* ------------------------------------------------------------------------
\* Properties of the edge function
\* ------------------------------------------------------------------------
\* The request carries a riskData that is a RiskInputs
CarriesRiskInputs ==
  /\ request.method = "POST" /\ request.json
  /\ request.body.riskData.present /\ request.body.riskData.typed

IsRiskResult(resp) ==
  /\ resp.status = 200 /\ resp.kind = "risk"
  /\ resp.data.level \in Levels
  /\ resp.data.probability \in 0..Million

\* The statement of C24 as written: every request that carries riskData is
\* answered with a RiskResult, whatever the configuration of the server.
C24_RiskScoringTotal ==
  (CarriesRiskInputs /\ response # NoResponse) => IsRiskResult(response)

\* C24: a request that carries a RiskInputs as riskData is answered with
\* a RiskResult and calls no other service, when LOVABLE_API_KEY is
\* configured and no key of higher precedence (validateEmailReq,
\* validatePhoneReq) is in the body.
C24_RiskScoringTotalWhenSelected ==
  ( /\ CarriesRiskInputs /\ response # NoResponse
    /\ env.LOVABLE_API_KEY
    /\ request.variant = "lookups"
         => ~request.body.validateEmailReq /\ ~request.body.validatePhoneReq )
  => IsRiskResult(response) /\ upstream = <<>>

\* A student's riskData was scored in a body that carries other keys too
C24_Witness ==
  /\ CarriesRiskInputs /\ IsRiskResult(response)
  /\ request.body.riskData.inputs.employmentType = EmpStudent
  /\ request.body.faceVerifyMode /\ ~request.body.messages
  /\ ~env.RESEND_API_KEY

\* C25: without LOVABLE_API_KEY every request other than OPTIONS is
\* answered with status 500 and an error body, the message is the same
\* whichever handler the keys of the body select, and no other service is
\* called.
C25_MissingKeyIsFatal ==
  (request.method # "OPTIONS" /\ ~env.LOVABLE_API_KEY /\ response # NoResponse)
  => /\ response.status = 500 /\ response.kind = "error"
     /\ response.error # "" /\ response.data = <<>>
     /\ request.json => response.error = "LOVABLE_API_KEY is not configured"
     /\ upstream = <<>> /\ handled = <<>>

\* A request for risk scoring, which calls no gateway, was answered with
\* 500 for the missing key
C25_Witness ==
  /\ ~env.LOVABLE_API_KEY /\ request.method = "POST" /\ request.json
  /\ request.body.riskData.present
  /\ response.status = 500 /\ upstream = <<>>

GenericErrors ==
  {"AI gateway error", "Document verification failed", "Face verification failed"}

\* The gateway answered the call of this step with the outcome o
GatewayAnswered(o) ==
  /\ upstream' # upstream
  /\ \/ HandleChat(o)
     \/ HandleFaceVerify(o)
     \/ \E reply \in DocReplies : HandleDocumentVerify(o, reply)

\* C26: in the chat, document and face handlers a status 429 or 402 of
\* the gateway is the status of the response, and every other non-success
\* status is answered with an error response that carries a generic
\* message.
C26_UpstreamStatusPropagated ==
  [][\A o \in FetchOutcomes :
        (o.kind = "status" /\ o.status # 200 /\ GatewayAnswered(o))
          => /\ response'.kind = "error"
             /\ o.status \in {429, 402} => response'.status = o.status
             /\ o.status \notin {429, 402} => response'.error \in GenericErrors]_vars

\* What raises an exception in the handler that the body selects
Raises ==
  \/ ~request.json
  \/ ~env.LOVABLE_API_KEY
  \/ Dispatch(request) \in {"faceVerify", "chat"} /\ ~request.body.messages
  \/ Dispatch(request) = "risk" /\ ~request.body.riskData.typed

Thrown(o) ==
  /\ o.kind = "throws"
  /\ \/ HandleChat(o)
     \/ HandleFaceVerify(o)
     \/ HandleSendEmail(o)
     \/ \E reply \in DocReplies : HandleDocumentVerify(o, reply)

IsJsonError(resp) ==
  resp.status = 500 /\ resp.kind = "error" /\ resp.error # ""

Precedence(variant) ==
  IF variant = "lookups"
  THEN <<"validateEmail", "validatePhone", "risk", "faceVerify", "chat">>
  ELSE <<"risk", "documentVerify", "sendEmail", "faceVerify", "chat">>

KeyPresent(body, name) ==
  CASE name = "validateEmail" -> body.validateEmailReq
    [] name = "validatePhone" -> body.validatePhoneReq
    [] name = "risk" -> body.riskData.present
    [] name = "documentVerify" -> body.documentVerifyMode.present
    [] name = "sendEmail" -> body.sendEmail.present
    [] name = "faceVerify" -> body.faceVerifyMode
    [] OTHER -> TRUE

FirstPresent(req) ==
  LET order == Precedence(req.variant)
      first == CHOOSE i \in 1..Len(order) :
                 /\ KeyPresent(req.body, order[i])
                 /\ \A j \in 1..(i - 1) : ~KeyPresent(req.body, order[j])
  IN order[first]

\* What a handler answers with
AnswersOf(name) ==
  CASE name \in {"validateEmail", "validatePhone"} -> {"validity"}
    [] name = "risk" -> {"risk", "error"}
    [] name = "documentVerify" -> {"verification", "error"}
    [] name = "sendEmail" -> {"success", "error"}
    [] OTHER -> {"stream", "error"}

\* C28: a POST request whose body is parsed on a configured server runs
\* exactly one handler, the first of the precedence whose key is in the
\* body; an OPTIONS request is answered with an empty body, whatever the
\* body and the configuration, and runs no handler.
C28_OneHandlerByPrecedence ==
  [][IF request.method = "OPTIONS"
     THEN response' = [status |-> 200, kind |-> "empty", error |-> "", data |-> <<>>]
          /\ handled' = <<>> /\ upstream' = <<>>
     ELSE (request.json /\ env.LOVABLE_API_KEY)
            => /\ handled' = <<FirstPresent(request)>>
               /\ response'.kind \in AnswersOf(FirstPresent(request))]_vars

\* A body with riskData, documentVerifyMode, sendEmail and faceVerifyMode
\* ran the risk handler alone
C28_Witness ==
  /\ request.variant = "documents" /\ handled = <<"risk">>
  /\ request.body.documentVerifyMode.present /\ request.body.sendEmail.present
  /\ request.body.faceVerifyMode /\ response.kind = "risk"

\* The first balanced block of content: from the first opening brace to the
\* first closing brace that closes it; the empty text when there is none
BlockStart(content) == Min(Positions(content, "{"))
BlockEnds(content) ==
  {j \in Positions(content, "}") :
     /\ Positions(content, "{") # {}
     /\ j > BlockStart(content)
     /\ Depth(SubSeq(content, BlockStart(content), j), j - BlockStart(content) + 1) = 0}
FirstBalancedBlock(content) ==
  IF BlockEnds(content) # {}
  THEN SubSeq(content, BlockStart(content), Min(BlockEnds(content)))
  ELSE <<>>

\* C29: the document handler answers a parsed reply of the gateway with a
\* success response whose verification is the first balanced block of the
\* content, and null when the content holds no such block.
C29_FirstBalancedBlock ==
  response.kind = "verification"
  => /\ response.status = 200
     /\ response.data.verification =
          (IF FirstBalancedBlock(response.data.raw) # <<>>
           THEN [null |-> FALSE, text |-> FirstBalancedBlock(response.data.raw)]
           ELSE [null |-> TRUE, text |-> <<>>])

\* The shape of a PAN as the claim states it
PanShape(s) ==
  /\ Len(s) = 10
  /\ \A i \in {1, 2, 3, 5, 10} : IsIn(s[i], Upper)
  /\ IsIn(s[4], <<"A", "B", "C", "F", "G", "H", "L", "J", "P", "T">>)
  /\ \A i \in 6..9 : IsIn(s[i], Digits)

\* C30: the PAN check of a document verification is valid exactly when the
\* upper-cased panNumber has the shape of a PAN, the verdict of a number
\* and of its upper-cased form are the same, ABCPT1234F and abcpt1234f are
\* valid, and ABCD1234F is invalid with the reason that names the
\* structure.
C30_PanFormat ==
  \A i \in 1..Len(upstream) : \A check \in upstream[i].panCheck :
    LET pan == request.body.documentVerifyMode.panNumber
    IN /\ check.valid = PanShape(toUpperCase(pan))
       /\ check.valid = validatePANFormat(toUpperCase(pan)).valid
       /\ pan \in {PanValid, PanLower} => check.valid
       /\ pan = PanShort
            => /\ ~check.valid
               /\ check.reason =
                    "invalid format. Must be ABCDE1234F (5 letters, 4 digits, 1 letter)"

\* The gateway was called with a valid check of a lower-case PAN
C30_Witness ==
  \E i \in 1..Len(upstream) : \E check \in upstream[i].panCheck :
    check.valid /\ request.body.documentVerifyMode.panNumber = PanLower

\* ------------------------------------------------------------------------
\* Properties of account generation, the camera, the stream and progress
\* ------------------------------------------------------------------------
\* C31: every generated account number is a numeral of 12 digits that
\* starts with 3, and every generated IFSC is one of the three codes of the
\* pool.
C31_AccountNumberShape ==
  \A g \in generated :
    /\ Len(g.accountNumber) = 12
    /\ g.accountNumber[1] = "3"
    /\ \A i \in 1..Len(g.accountNumber) :
         g.accountNumber[i] \in {"0", "1", "2", "3", "4", "5", "6", "7", "8", "9"}
    /\ g.ifsc \in {"ONBX0001234", "ONBX0005678", "ONBX0009012"}

\* C32: while the face-capture view is closed, no camera stream is active,
\* whenever the requests of the camera (of the effect or of Retry) are
\* answered and whenever the capture and the close happen.
C32_NoStreamAfterClose == ~showFaceVerify => activeStreams = {}

\* The records of the stream whose data is a JSON document
WellFormed(recs) == SelectSeq(recs, LAMBDA rec : "{" \notin Range(rec.content))

\* C33: a record that fails JSON parsing does not keep the well-formed
\* records of the stream from the reply: when the read loop ends, the
\* reply is the concatenation of the contents of the well-formed records.
C33_MalformedDoesNotBlock ==
  reader = "finished" => botReply = Deltas(WellFormed(records))

\* C35: streamMessage comes to its end for every finite stream, with
\* malformed records or without the [DONE] line: every read shortens what
\* is left of the stream or ends the loop, the part after the loop runs
\* once, no state before the end is without a next step, and at the end
\* isLoading is false.
C35_StreamMessageTerminates ==
  /\ [][\/ reader = "reading" /\ reader' = "reading" /\ Len(wire') < Len(wire)
        \/ reader = "reading" /\ reader' = "finished"
        \/ reader = "finished" /\ reader' = "idle"]_vars
  /\ [](reader # "idle" => ENABLED StreamNext)
  /\ [](reader = "idle" => ~isLoading)

\* The loop has ended on a stream whose malformed record is still in the
\* buffer
C35_Witness ==
  /\ reader = "idle" /\ ~isLoading /\ wire = <<>>
  /\ \E i \in DOMAIN records : records[i] \in Malformed
  /\ textBuffer # <<>>

ErrorMessages == {"error", "connectionError"}

\* C34: when a completion call fails (the response is not a success, or an
\* exception is thrown), one bot error message is appended to the
\* messages, the onboarding record with its step, the face trigger and the
\* progress stay as they are, the call is taken off the calls in flight
\* and nothing is put in its place, and isLoading is false.
C34_FailedCallDegrades ==
  [][\A r \in BagToSet(pending) :
        (StreamHttpError(r) \/ StreamException(r))
          => /\ Len(messages') = Len(messages) + 1
             /\ SubSeq(messages', 1, Len(messages)) = messages
             /\ messages'[Len(messages')].role = "bot"
             /\ messages'[Len(messages')].content \in ErrorMessages
             /\ onboarding' = onboarding
             /\ faceVerifyTriggered' = faceVerifyTriggered
             /\ progress' = progress
             /\ BagCardinality(pending') = BagCardinality(pending) - 1
             /\ \A t \in BagToSet(pending') : pending'[t] <= pending[t]
             /\ ~isLoading']_vars

\* A call failed with an exception while the step was awaitingIncome
C34_Witness ==
  /\ Len(messages) > 0
  /\ messages[Len(messages)].content = "connectionError"
  /\ onboarding.step = "awaitingIncome"
  /\ ~isLoading /\ Has("chat") = {}

\* The step the claim gives for a reply with the trigger kinds trig
StepByPrecedence(step, trig, ob) ==
  IF "phone" \in trig /\ ob.phone = <<>> THEN "awaitingPhone"
  ELSE IF "email" \in trig /\ ob.email = <<>> THEN "awaitingEmail"
  ELSE IF "income" \in trig THEN "awaitingIncome"
  ELSE step

\* The kinds of trigger phrase in a reply, by the tables
KindsIn(reply) ==
  {k \in {"income", "email", "phone"} :
     \E p \in (CASE k = "income" -> INCOME_TRIGGER_PHRASES
                  [] k = "email" -> EMAIL_TRIGGER_PHRASES
                  [] OTHER -> PHONE_TRIGGER_PHRASES) :
       includes(toLowerCase(reply), p)}

\* C36: after a reply the step is awaitingPhone if the reply has a phone
\* phrase and no phone is recorded, otherwise awaitingEmail if it has an
\* email phrase and no email is recorded, otherwise awaitingIncome if it
\* has an income phrase, and otherwise the step it was.
C36_TriggerPrecedence ==
  [][AfterLoop => onboarding'.step =
        StepByPrecedence(onboarding.step, KindsIn(botReply), onboarding)]_vars

\* A reply with phrases of all three kinds was met without a phone on
\* record and the step is awaitingPhone
C36_Witness ==
  /\ reader = "idle" /\ botReply = ReplyAll
  /\ onboarding.phone = <<>> /\ onboarding.email = <<>>
  /\ onboarding.step = "awaitingPhone"

\* Low < Medium < High
LevelRank(level) == IF level = "Low" THEN 0 ELSE IF level = "Medium" THEN 1 ELSE 2

\* The inputs that differ from inputs by a higher income only
HigherIncome(inputs) ==
  {[inputs EXCEPT !.monthlyIncome = m] :
     m \in {i \in RiskIncomes : i > inputs.monthlyIncome}}

\* The inputs that differ from inputs by one verification turned to true
MoreVerified(inputs) ==
  (IF inputs.documentsVerified THEN {}
   ELSE {[inputs EXCEPT !.documentsVerified = TRUE]})
  \cup (IF inputs.faceVerified THEN {}
        ELSE {[inputs EXCEPT !.faceVerified = TRUE]})

\* C37: against the result sent back for a request, the same request with
\* a higher monthlyIncome has no higher probability, and the same request
\* with documentsVerified or faceVerified turned from false to true has no
\* higher probability and no worse level.
C37_RiskMonotone ==
  \A inputs \in riskData : \A res \in riskResponse :
    /\ \A higher \in HigherIncome(inputs) :
         calculateRisk(higher).probability <= res.probability
    /\ \A better \in MoreVerified(inputs) :
         /\ calculateRisk(better).probability <= res.probability
         /\ LevelRank(calculateRisk(better).level) <= LevelRank(res.level)

\* An unverified request was scored, and both a verification and a higher
\* income would have lowered its probability
C37_Witness ==
  \E inputs \in riskData : \E res \in riskResponse :
    /\ ~inputs.documentsVerified /\ ~inputs.faceVerified
    /\ \E better \in MoreVerified(inputs) :
         LevelRank(calculateRisk(better).level) < LevelRank(res.level)
    /\ \E higher \in HigherIncome(inputs) :
         calculateRisk(higher).probability < res.probability

\* The automatic openings of the face-capture view that are scheduled
OpenFaceScheduled(bag) == CopiesIn(Pend("openFace"), bag)

\* C38: the automatic opening of the face-capture view is scheduled only
\* by the first reply with a face phrase, whatever the later replies hold:
\* a step schedules at most one opening and only by turning
\* faceVerifyTriggered from false to true, and faceVerifyTriggered is never
\* reset; faceVerified and documentsVerified never go from true to false.
C38_FaceOpenedOnceFlagsKept ==
  [][/\ faceVerifyTriggered => faceVerifyTriggered'
     /\ OpenFaceScheduled(pending') > OpenFaceScheduled(pending)
          => /\ ~faceVerifyTriggered /\ faceVerifyTriggered'
             /\ OpenFaceScheduled(pending') = OpenFaceScheduled(pending) + 1
     /\ onboarding.faceVerified => onboarding'.faceVerified
     /\ onboarding.documentsVerified => onboarding'.documentsVerified]_vars

\* The scheduled opening has run, both verifications are done and the
\* view is closed again
C38_Witness ==
  /\ faceVerifyTriggered /\ OpenFaceScheduled(pending) = 0
  /\ onboarding.faceVerified /\ onboarding.documentsVerified
  /\ ~showFaceVerify

\* C39: progress is between 5 and 100 and no step lowers it, so that a
\* progress of 100 stays 100.
C39_ProgressMonotone ==
  /\ [](progress >= 5 /\ progress <= 100)
  /\ [][progress' >= progress]_vars

====
